---------------------------- MODULE Spec2Model ----------------------------
(***************************************************************************)
(* YouFLAC job pipeline engine: the queue (q.items under q.mutex), the     *)
(* per-item runner Queue.processItem (backend/queue_processor.go, second   *)
(* half of src/backend/playlist.go) and the queue persistence              *)
(* (src/backend/queue_persistence.go).                                     *)
(*                                                                         *)
(* Every action is one critical section of q.mutex, one cancellation       *)
(* check, or one collaborator call together with the purely local code     *)
(* around it, so that every interleaving of Cancel/Remove/Retry with the   *)
(* runner's shared reads and writes is a behaviour of the model.           *)
(***************************************************************************)
EXTENDS Integers, Sequences, FiniteSets, TLC

VARIABLES
    items,      \* q.items: the slice of QueueItem, in order
    nextId,     \* next id Enqueue assigns (ids are never reused)
    retries,    \* RetryWithOverride calls accepted so far
    ctxDone,    \* q.ctx has been cancelled (queue shutdown)
    pc,         \* pc[w]: position of worker w inside processItem
    loc,        \* loc[w]: processItem's local variables
    tok,        \* tok[w]: itemCtx of w's current run was cancelled through its cancel func
    tempDirs,   \* ids whose directory <TempDir>/youflac/<id> exists
    emitted,    \* events published by the last step (q.emit), in order
    panicked,   \* a runner dereferenced a nil item: the process is gone
    fileIndex,  \* q.fileIndex: nil, or the paths of its entries
    targetFile, \* the file at the item's generated output path: "none", "other"
                \* (a file that was there before the run), "new" (written by a run)
    disk,       \* the file queue.json
    mainPc,     \* startup: "boot" before LoadQueue, "run" after
    autoPc,     \* position of the AutoSave goroutine
    save,       \* the SaveQueue call in progress: its position and its local `data`
    tickReady,  \* ticker.C holds a tick (channel of capacity 1)
    lateSaves,  \* SaveQueue calls AutoSave began after q.ctx was cancelled
    finalSaves, \* SaveQueue calls AutoSave made from its ctx.Done branch
    lucida,     \* a LucidaService, the servers it can reach, and its call in progress
    mutex,      \* q.mutex: the worker holding the write lock, the workers holding read locks
    history,    \* q.history: nil, or the ids of the items it holds a record of
    sidecar,    \* the sidecar step of a run: the output path, the options, the files written
    stats       \* the QueueStats of the last GetStats call

pipeVars == <<nextId, retries, pc, loc, tok, tempDirs, emitted, panicked, fileIndex,
              targetFile>>
persistVars == <<disk, mainPc, autoPc, save, tickReady, lateSaves, finalSaves>>
svcVars == <<lucida>>
lockVars == <<mutex>>
vars == <<items, ctxDone, pipeVars, persistVars, svcVars, lockVars, history, sidecar, stats>>

-----------------------------------------------------------------------------
(* Bounds of the model *)

\* RetryWithOverride calls accepted in one behaviour
MaxRetries == 1

\* servers a LucidaService is set up against
MaxEndpoints == 2
\* entries of resp.Formats
MaxFormats == 2
\* items in a queue whose statistics are taken
MaxStatItems == 3
\* length of the item list found in queue.json at startup
MaxFileItems == 1
\* lateSaves saturates here
MaxLate == 2

\* the worker pool, and the ids Enqueue hands out
Workers == {"w1", "w2"}
Ids == {1}

-----------------------------------------------------------------------------
(* Queue item *)

StatusPending == "pending"
StatusFetchingInfo == "fetching_info"
StatusDownloadingVideo == "downloading_video"
StatusDownloadingAudio == "downloading_audio"
StatusMuxing == "muxing"
StatusOrganizing == "organizing"
StatusComplete == "complete"
StatusError == "error"
StatusCancelled == "cancelled"

InFlight == {StatusFetchingInfo, StatusDownloadingVideo, StatusDownloadingAudio,
             StatusMuxing, StatusOrganizing}
Terminal == {StatusComplete, StatusError, StatusCancelled}
Statuses == {StatusPending} \cup InFlight \cup Terminal

\* config.AudioSourcePriority
AudioSourcePriority == <<"tidal", "qobuz">>

NoItem == [id |-> 0]

\* the fields of QueueItem the runner and the persistence read or write
NewItem(id, title) ==
    [id |-> id, status |-> StatusPending, progress |-> 0, stage |-> "",
     title |-> title, audioOnly |-> FALSE, videoPath |-> "", audioPath |-> "",
     audioSource |-> "", outputPath |-> "", completedAt |-> FALSE,
     started |-> FALSE, error |-> "", cancelFunc |-> "nil",
     artist |-> "", videoURL |-> "V", spotifyURL |-> "",
     matchCandidates |-> "nil", matchDiagnostics |-> "nil"]

Merge(it, upd) ==
    [f \in DOMAIN it |-> IF f \in DOMAIN upd THEN upd[f] ELSE it[f]]

Has(its, id) == \E i \in DOMAIN its : its[i].id = id

\* Queue.GetItem: a copy of the item, nil when the id is not in the queue
GetItem(its, id) ==
    IF Has(its, id) THEN its[CHOOSE i \in DOMAIN its : its[i].id = id] ELSE NoItem

\* Queue.updateItem(id, mutator): the mutation under the writer lock
updateItem(its, id, upd) ==
    [i \in DOMAIN its |-> IF its[i].id = id THEN Merge(its[i], upd) ELSE its[i]]

\* Queue.UpdateStatus(id, status, progress, stage)
UpdateStatus(its, id, status, progress, stage) ==
    updateItem(its, id, [status |-> status, progress |-> progress, stage |-> stage])

\* a SetItemError that records nothing
SetItemErrorLost(its, id) == its

\* Queue.SetItemError(id, err)
SetItemError(its, id) ==
    updateItem(its, id, [status |-> StatusError, error |-> "err"])

Ev(type, id) == [type |-> type, id |-> id]
\* the event a found item's update publishes
EvIf(its, id, type) == IF Has(its, id) THEN <<Ev(type, id)>> ELSE <<>>

RemoveAt(its, k) == [i \in 1..(Len(its) - 1) |-> IF i < k THEN its[i] ELSE its[i + 1]]


-----------------------------------------------------------------------------
(* Queue manager operations on the shared state *)

\* processItem's locals before the claim. existingFile, links and the loop
\* index are as in the code; `called` records that DownloadVideo,
\* ResolveMusicURL or a service download was called in this run, `tried` the
\* sources of the current loop a service download was called for, `svcs` the
\* download calls made for the current source, `late` that a download or
\* search call for the audio was started with itemCtx already done, and
\* `info` the artist and title of videoInfo and the answer of IsAvailable
\* while the search fallback is under way.
LocIdle == [id |-> 0, titleEmpty |-> FALSE, url |-> "", hasTemp |-> FALSE, videoPath |-> "",
            audioOnly |-> FALSE, audioDownloaded |-> FALSE, src |-> 0,
            existing |-> "", links |-> {}, tried |-> {}, called |-> FALSE,
            out |-> "", svcs |-> <<>>, late |-> FALSE, info |-> <<>>]

\* the locals l at a return statement: what the deferred calls use (the id,
\* the temp dir) and what the run has done (the URL it was given, audioOnly,
\* audioDownloaded, a download call made); the others are dead
Returning(l) ==
    [LocIdle EXCEPT !.id = l.id, !.hasTemp = l.hasTemp, !.url = l.url,
                    !.audioOnly = l.audioOnly, !.audioDownloaded = l.audioDownloaded,
                    !.called = l.called]

\* the locals of w when it steps to `next`
Locals(w, next) ==
    loc' = [loc EXCEPT ![w] = IF next = "ret" THEN Returning(loc[w]) ELSE loc[w]]

\* q.fileIndex: not set, or a FileIndex with entries at these paths
NoIndex == [nil |-> TRUE, paths |-> {}]
IndexOf(paths) == [nil |-> FALSE, paths |-> paths]

\* q.history: nil when no history store is configured, else the ids of the
\* items it holds a record of.
NoHistory == [nil |-> TRUE, ids |-> {}]
HistoryOf(ids) == [nil |-> FALSE, ids |-> ids]
AddFromQueueItem(h, id) == [h EXCEPT !.ids = @ \cup {id}]

\* no run is at its sidecar step
NoSidecar == [op |-> "none"]

\* GetStats has not been called
NoStats == [called |-> FALSE]

\* FileIndex.AddEntry(entry): the entry is stored under its path
AddEntry(fi, path) == [fi EXCEPT !.paths = @ \cup {path}]

\* the entries FileIndex.FindMatch may return for the item's title and artist
FindMatch(fi) == fi.paths

\* GenerateFilePath / GeneratePlaylistFilePath: where the item's file belongs
TargetPath == "target"

\* the video URLs of the requests: one that ParseYouTubeURL accepts, one
\* that it rejects
VideoURLs == {"V", "bad"}

\* ParseYouTubeURL(url): the video id, or an error
ParseYouTubeURL(url) ==
    IF url = "V" THEN [id |-> "id", err |-> FALSE] ELSE [id |-> "", err |-> TRUE]

\* Enqueue(request): a new pending item, appended; the request carries the
\* video URL and may carry a title
Enqueue(title, url) ==
    /\ ~panicked
    /\ nextId \in Ids
    /\ items' = Append(items, [NewItem(nextId, title) EXCEPT !.videoURL = url])
    /\ nextId' = nextId + 1
    /\ emitted' = <<Ev("added", nextId)>>
    /\ UNCHANGED <<ctxDone, retries, pc, loc, tok, tempDirs, fileIndex, targetFile, panicked, persistVars, svcVars, lockVars, history, sidecar, stats>>

\* what Cancel writes into a non-terminal item
CancelUpdate == [status |-> StatusCancelled]

\* Cancel(id): trips the item's cancellation token and sets status = cancelled
\* when the item is not terminal; otherwise nothing (idempotent)
Cancel(id) ==
    /\ ~panicked
    /\ Has(items, id)
    /\ LET it == GetItem(items, id) IN
       IF it.status \in Terminal
       THEN /\ emitted' = <<>>
            /\ UNCHANGED <<items, tok>>
       ELSE /\ items' = updateItem(items, id, CancelUpdate)
            /\ tok' = [w \in Workers |-> tok[w] \/ it.cancelFunc = w]
            /\ emitted' = <<Ev("cancelled", id)>>
    /\ UNCHANGED <<nextId, retries, ctxDone, pc, loc, tempDirs, fileIndex, targetFile, panicked, persistVars, svcVars, lockVars, history, sidecar, stats>>

\* Remove(id): only from a terminal state
Remove(id) ==
    /\ ~panicked
    /\ Has(items, id)
    /\ GetItem(items, id).status \in Terminal
    /\ items' = RemoveAt(items, CHOOSE i \in DOMAIN items : items[i].id = id)
    /\ emitted' = <<Ev("removed", id)>>
    /\ UNCHANGED <<nextId, retries, ctxDone, pc, loc, tok, tempDirs, fileIndex, targetFile, panicked, persistVars, svcVars, lockVars, history, sidecar, stats>>

\* RetryOverrideRequest{Artist, Title, MusicURL}
RetryRequest(artist, title, musicURL) ==
    [artist |-> artist, title |-> title, musicURL |-> musicURL]

\* every shape of retry request: each field empty or given
RetryRequests ==
    {RetryRequest(a, t, m) : a \in {"", "A2"}, t \in {"", "T2"}, m \in {"", "M"}}

\* the requests retried while workers run: a title override, or none
Overrides == {RetryRequest("", "", ""), RetryRequest("", "T", "")}

\* a retry that leaves the match state of the failed run in place
RetryUpdateKeepsMatchState(it, req) ==
    [status |-> StatusPending, progress |-> 0, stage |-> "", error |-> "",
     artist |-> IF req.artist = "" THEN it.artist ELSE req.artist,
     title |-> IF req.title = "" THEN it.title ELSE req.title,
     spotifyURL |-> IF req.musicURL = "" THEN it.spotifyURL ELSE req.musicURL]

\* a retry that writes the music URL over the video URL
RetryUpdateOverVideoURL(it, req) ==
    [status |-> StatusPending, progress |-> 0, stage |-> "", error |-> "",
     matchCandidates |-> "nil", matchDiagnostics |-> "nil",
     artist |-> IF req.artist = "" THEN it.artist ELSE req.artist,
     title |-> IF req.title = "" THEN it.title ELSE req.title,
     videoURL |-> IF req.musicURL = "" THEN it.videoURL ELSE req.musicURL]

\* a retry that writes the fields of the request even when they are empty
RetryUpdateAlwaysOverrides(it, req) ==
    [status |-> StatusPending, progress |-> 0, stage |-> "", error |-> "",
     matchCandidates |-> "nil", matchDiagnostics |-> "nil",
     artist |-> req.artist, title |-> req.title, spotifyURL |-> req.musicURL]

\* what RetryWithOverride writes into the item: the overrides that are given,
\* error, match candidates and match diagnostics cleared, status = pending
RetryUpdate(it, req) ==
    [status |-> StatusPending, progress |-> 0, stage |-> "", error |-> "",
     matchCandidates |-> "nil", matchDiagnostics |-> "nil",
     artist |-> IF req.artist = "" THEN it.artist ELSE req.artist,
     title |-> IF req.title = "" THEN it.title ELSE req.title,
     spotifyURL |-> IF req.musicURL = "" THEN it.spotifyURL ELSE req.musicURL]

\* a retry that is accepted for every item that is in the queue
RetryCallAnyStatus(its, id, req) ==
    IF Has(its, id)
    THEN [err |-> FALSE, items |-> updateItem(its, id, RetryUpdate(GetItem(its, id), req))]
    ELSE [err |-> TRUE, items |-> its]

\* the result of RetryWithOverride(id, req) on the item list its: an error
\* when the id is not in the queue or the item is not in status error, else
\* the updated item list
RetryCall(its, id, req) ==
    IF Has(its, id) /\ GetItem(its, id).status = StatusError
    THEN [err |-> FALSE, items |-> updateItem(its, id, RetryUpdate(GetItem(its, id), req))]
    ELSE [err |-> TRUE, items |-> its]

\* RetryWithOverride(id, req): only from error; applies the overrides,
\* clears the error and the match state, sets status = pending; for an
\* unknown id or an item not in error it returns an error and does nothing
RetryWithOverride(id, req) ==
    /\ ~panicked
    /\ items' = RetryCall(items, id, req).items
    /\ IF RetryCall(items, id, req).err
       THEN /\ retries' = retries
            /\ emitted' = <<>>
       ELSE /\ retries < MaxRetries
            /\ retries' = retries + 1
            /\ emitted' = <<Ev("updated", id)>>
    /\ UNCHANGED <<nextId, ctxDone, pc, loc, tok, tempDirs, fileIndex, targetFile, panicked, persistVars, svcVars, lockVars, history, sidecar, stats>>

\* the queue's parent context is cancelled (shutdown)
Shutdown ==
    /\ ~panicked
    /\ ~ctxDone
    /\ ctxDone' = TRUE
    /\ emitted' = <<>>
    /\ UNCHANGED <<items, nextId, retries, pc, loc, tok, tempDirs, fileIndex, targetFile, panicked, persistVars, svcVars, lockVars, history, sidecar, stats>>

-----------------------------------------------------------------------------
(* Queue.processItem, worker w *)

\* a Done channel that fires when any item's token is tripped
DoneAnyToken(w) == (\E v \in Workers : tok[v]) \/ ctxDone

\* <-itemCtx.Done() is ready: the item's own token or the parent's was tripped
Done(w) == tok[w] \/ ctxDone

\* a step of worker w that leaves everything but the named variables alone
Step(w, next) ==
    /\ pc' = [pc EXCEPT ![w] = next]
    /\ UNCHANGED <<nextId, retries, ctxDone, panicked, persistVars, svcVars, lockVars, history, sidecar, stats>>

\* a claim that only refuses finished items
ClaimGuardNotTerminal(it) == it.status \notin Terminal

\* the guard of the claim: "Skip if not pending"
ClaimGuard(it) == it.status = StatusPending

\* what the claim writes into the item
ClaimUpdate(w) ==
    [cancelFunc |-> w, status |-> StatusFetchingInfo, started |-> TRUE,
     stage |-> "Fetching video info..."]

\* processItem(id) is called: the claim, one critical section of q.mutex.
\* A non-pending item: unlock, cancel(), return. An id that is not in the
\* queue: nothing is written, and the GetItem that follows returns nil.
Claim(w, id) ==
    /\ ~panicked
    /\ pc[w] = "idle"
    /\ emitted' = <<>>
    /\ UNCHANGED <<tok, tempDirs, fileIndex, targetFile>>
    /\ IF Has(items, id) /\ ClaimGuard(GetItem(items, id))
       THEN /\ items' = updateItem(items, id, ClaimUpdate(w))
            /\ loc' = [loc EXCEPT ![w] = [LocIdle EXCEPT !.id = id]]
            /\ Step(w, "getitem")
       ELSE /\ UNCHANGED <<items, loc>>
            /\ Step(w, "idle")

\* item := q.GetItem(id); nil: return. Emit "updated", read the config.
FetchItem(w) ==
    /\ ~panicked
    /\ pc[w] = "getitem"
    /\ UNCHANGED <<items, tok, tempDirs, fileIndex, targetFile>>
    /\ LET it == GetItem(items, loc[w].id) IN
       IF it = NoItem
       THEN /\ emitted' = <<>>
            /\ UNCHANGED loc
            /\ Step(w, "ret")
       ELSE /\ emitted' = <<Ev("updated", loc[w].id)>>
            /\ loc' = [loc EXCEPT ![w].titleEmpty = (it.title = ""), ![w].url = it.videoURL]
            /\ Step(w, "mkdir")

\* os.MkdirAll(tempDir): on failure SetItemError and return (nothing deferred
\* yet); on success defer os.RemoveAll(tempDir). With a known title stage 1 is
\* local code only.
MakeTempDir(w) ==
    /\ ~panicked
    /\ pc[w] = "mkdir"
    /\ UNCHANGED tok
    /\ \/ /\ items' = SetItemError(items, loc[w].id)
          /\ emitted' = EvIf(items, loc[w].id, "error")
          /\ UNCHANGED <<loc, tempDirs, fileIndex, targetFile>>
          /\ Step(w, "ret")
       \/ /\ tempDirs' = tempDirs \cup {loc[w].id}
          /\ UNCHANGED <<fileIndex, targetFile>>
          /\ loc' = [loc EXCEPT ![w].hasTemp = TRUE]
          /\ emitted' = <<>>
          /\ UNCHANGED items
          /\ Step(w, IF loc[w].titleEmpty THEN "s1_update" ELSE "skip_chk")

\* a q.UpdateStatus call of the runner, then on to `next`
RunnerUpdate(w, status, progress, stage, next) ==
    /\ ~panicked
    /\ items' = UpdateStatus(items, loc[w].id, status, progress, stage)
    /\ emitted' = EvIf(items, loc[w].id, "updated")
    /\ UNCHANGED <<loc, tok, tempDirs, fileIndex, targetFile>>
    /\ Step(w, next)

\* a q.SetItemError call of the runner followed by return
RunnerFail(w) ==
    /\ ~panicked
    /\ items' = SetItemError(items, loc[w].id)
    /\ emitted' = EvIf(items, loc[w].id, "error")
    /\ Locals(w, "ret")
    /\ UNCHANGED <<tok, tempDirs, fileIndex, targetFile>>
    /\ Step(w, "ret")

\* select { case <-itemCtx.Done(): return; default: }, then on to `next`
CtxCheck(w, next) ==
    /\ ~panicked
    /\ emitted' = <<>>
    /\ Locals(w, IF Done(w) THEN "ret" ELSE next)
    /\ UNCHANGED <<items, tok, tempDirs, fileIndex, targetFile>>
    /\ Step(w, IF Done(w) THEN "ret" ELSE next)

\* stage 1, title unknown: UpdateStatus(fetching_info, 5, "Parsing URL...")
Stage1Update(w) ==
    /\ pc[w] = "s1_update"
    /\ RunnerUpdate(w, StatusFetchingInfo, 5, "Parsing URL...", "s1_parse")

\* ParseYouTubeURL(item.VideoURL): an error is fatal; else the cancellation
\* check
Stage1Parse(w) ==
    /\ pc[w] = "s1_parse"
    /\ IF ParseYouTubeURL(loc[w].url).err
       THEN RunnerFail(w)
       ELSE CtxCheck(w, "s1_meta")

\* GetVideoMetadata: an error is fatal; else the item gets title, artist, ...
Stage1Metadata(w) ==
    /\ pc[w] = "s1_meta"
    /\ \/ RunnerFail(w)
       \/ /\ ~panicked
          /\ items' = updateItem(items, loc[w].id, [title |-> "T"])
          /\ emitted' = EvIf(items, loc[w].id, "updated")
          /\ UNCHANGED <<loc, tok, tempDirs, fileIndex, targetFile>>
          /\ Step(w, "skip_chk")

\* a completion that forgets the output path
CompleteUpdateNoPath(stage, path) ==
    [status |-> StatusComplete, progress |-> 100, stage |-> stage,
     completedAt |-> TRUE]

\* what the runner writes when it completes an item
CompleteUpdate(stage, path) ==
    [status |-> StatusComplete, progress |-> 100, stage |-> stage,
     outputPath |-> path, completedAt |-> TRUE]

\* q.updateItem(complete ...) directly followed by q.emit("completed")
RunnerComplete(w, stage, path) ==
    /\ ~panicked
    /\ items' = updateItem(items, loc[w].id, CompleteUpdate(stage, path))
    /\ emitted' = EvIf(items, loc[w].id, "updated") \o <<Ev("completed", loc[w].id)>>
    /\ Locals(w, "ret")
    /\ UNCHANGED <<tok, tempDirs>>
    /\ Step(w, "ret")

\* a cleanup placed at the end of the success path instead of being deferred
RemoveTempOnSuccess(w, dirs) ==
    IF loc[w].hasTemp /\ GetItem(items, loc[w].id) # NoItem
                      /\ GetItem(items, loc[w].id).status = StatusComplete
    THEN dirs \ {loc[w].id} ELSE dirs

\* the deferred os.RemoveAll(tempDir) of a run that created its directory
RemoveTemp(w, dirs) == IF loc[w].hasTemp THEN dirs \ {loc[w].id} ELSE dirs

\* a nil item is dereferenced: the deferred calls run, then the process dies
RunnerPanic(w) ==
    /\ ~panicked
    /\ panicked' = TRUE
    /\ tempDirs' = RemoveTemp(w, tempDirs)
    /\ UNCHANGED <<fileIndex, targetFile>>
    /\ pc' = [pc EXCEPT ![w] = "panic"]
    /\ emitted' = <<>>
    /\ UNCHANGED <<items, loc, tok, nextId, retries, ctxDone, persistVars, svcVars, lockVars, history, sidecar, stats>>

\* a step of the runner that touches no shared state, then on to `next`
RunnerLocal(w, next) ==
    /\ ~panicked
    /\ emitted' = <<>>
    /\ UNCHANGED <<items, loc, tok, tempDirs, fileIndex, targetFile>>
    /\ Step(w, next)

\* stage 1.5: cancellation check, then fileIndex.FindMatch (hit or miss)
SkipCheck(w) ==
    /\ pc[w] = "skip_chk"
    /\ ~panicked
    /\ emitted' = <<>>
    /\ UNCHANGED <<items, tok, tempDirs, fileIndex, targetFile>>
    /\ IF Done(w)
       THEN /\ Locals(w, "ret")
            /\ Step(w, "ret")
       ELSE \/ /\ ~fileIndex.nil
               /\ \E e \in FindMatch(fileIndex) :
                     loc' = [loc EXCEPT ![w].existing = e]
               /\ Step(w, "skip_found")
            \/ /\ UNCHANGED loc
               /\ Step(w, "dl_chk")

\* UpdateStatus(organizing, 80, "Found existing file...")
SkipFound(w) ==
    /\ pc[w] = "skip_found"
    /\ RunnerUpdate(w, StatusOrganizing, 80, "Found existing file...", "skip_get")

\* item = q.GetItem(id), used unguarded at item.PlaylistPosition; then the
\* target path: the existing file's own path, or another one
SkipGetItem(w) ==
    /\ pc[w] = "skip_get"
    /\ IF GetItem(items, loc[w].id) = NoItem
       THEN RunnerPanic(w)
       ELSE IF loc[w].existing = TargetPath
       THEN RunnerLocal(w, "skip_same")
       ELSE RunnerLocal(w, "skip_copy")

\* already in the correct location: mark complete
SkipSame(w) ==
    /\ pc[w] = "skip_same"
    /\ RunnerComplete(w, "Skipped (already exists)", loc[w].existing)
    /\ UNCHANGED <<fileIndex, targetFile>>

\* UpdateStatus(organizing, 90, "Copying existing file...")
SkipCopyStart(w) ==
    /\ pc[w] = "skip_copy"
    /\ RunnerUpdate(w, StatusOrganizing, 90, "Copying existing file...", "skip_copy_run")

\* copyFile(src, dst) failed, and the block of existingFile is left towards
\* `next`. The failure is one of os.Open, os.MkdirAll or os.Create, which
\* leave dst as it was (a failure of io.Copy or Sync after os.Create is not
\* among the failures drawn here).
SkipLeave(w, next) ==
    /\ ~panicked
    /\ emitted' = <<>>
    /\ loc' = [loc EXCEPT ![w].existing = ""]
    /\ UNCHANGED <<items, tok, tempDirs, fileIndex, targetFile>>
    /\ Step(w, next)

\* a copy failure that goes on with the audio stage
SkipCopyFailedToAudio(w) == SkipLeave(w, "au_chk")

\* copyFile failed: "continue with normal download"
SkipCopyFailed(w) == SkipLeave(w, "dl_chk")

\* a copy that completes the item without a file index entry
SkipCopiedNoEntry(w) ==
    /\ RunnerComplete(w, "Copied from existing", TargetPath)
    /\ targetFile' = "new"
    /\ UNCHANGED fileIndex

\* copyFile succeeded (os.Create truncates the target and the copy is
\* written): fileIndex.AddEntry for the target path, then complete
SkipCopied(w) ==
    /\ RunnerComplete(w, "Copied from existing", TargetPath)
    /\ targetFile' = "new"
    /\ fileIndex' = AddEntry(fileIndex, TargetPath)

\* copyFile: on success mark complete, on failure continue with the download
SkipCopy(w) ==
    /\ pc[w] = "skip_copy_run"
    /\ \/ SkipCopied(w)
       \/ SkipCopyFailed(w)

\* stage 2: cancellation check
VideoCheck(w) ==
    /\ pc[w] = "dl_chk"
    /\ CtxCheck(w, "dl_start")

\* UpdateStatus(downloading_video, 10, "Downloading video...")
VideoStart(w) ==
    /\ pc[w] = "dl_start"
    /\ RunnerUpdate(w, StatusDownloadingVideo, 10, "Downloading video...", "dl_run")

\* a fallback that sets the local audioOnly only, not the item's
VideoFailedLocalOnly(w) ==
    /\ ~panicked
    /\ items' = UpdateStatus(items, loc[w].id, StatusDownloadingAudio, 40,
                             "Video unavailable, downloading audio only...")
    /\ loc' = [loc EXCEPT ![w].audioOnly = TRUE, ![w].videoPath = "", ![w].called = TRUE]
    /\ emitted' = EvIf(items, loc[w].id, "updated")
    /\ UNCHANGED <<tok, tempDirs, fileIndex, targetFile>>
    /\ Step(w, "au_chk")

\* DownloadVideo failed: audio-only fallback
VideoFailed(w) ==
    /\ ~panicked
    /\ items' = updateItem(
                   UpdateStatus(items, loc[w].id, StatusDownloadingAudio, 40,
                                "Video unavailable, downloading audio only..."),
                   loc[w].id, [audioOnly |-> TRUE])
    /\ loc' = [loc EXCEPT ![w].audioOnly = TRUE, ![w].videoPath = "", ![w].called = TRUE]
    /\ emitted' = EvIf(items, loc[w].id, "updated") \o EvIf(items, loc[w].id, "updated")
    /\ UNCHANGED <<tok, tempDirs, fileIndex, targetFile>>
    /\ Step(w, "au_chk")

\* DownloadVideo succeeded
VideoDownloaded(w) ==
    /\ ~panicked
    /\ items' = updateItem(
                   UpdateStatus(items, loc[w].id, StatusDownloadingVideo, 40,
                                "Video downloaded"),
                   loc[w].id, [videoPath |-> "v"])
    /\ loc' = [loc EXCEPT ![w].videoPath = "v", ![w].called = TRUE]
    /\ emitted' = EvIf(items, loc[w].id, "updated") \o EvIf(items, loc[w].id, "updated")
    /\ UNCHANGED <<tok, tempDirs, fileIndex, targetFile>>
    /\ Step(w, "au_chk")

VideoRun(w) ==
    /\ pc[w] = "dl_run"
    /\ \/ VideoFailed(w)
       \/ VideoDownloaded(w)

\* stage 3: cancellation check
AudioCheck(w) ==
    /\ pc[w] = "au_chk"
    /\ CtxCheck(w, "au_start")

\* UpdateStatus(downloading_audio, 40, "Finding audio match..."); the item has
\* a source URL to resolve, or none
AudioStart(w) ==
    /\ pc[w] = "au_start"
    /\ \/ RunnerUpdate(w, StatusDownloadingAudio, 40, "Finding audio match...", "au_resolve")
       \/ RunnerUpdate(w, StatusDownloadingAudio, 40, "Finding audio match...", "au_search")

\* UpdateStatus(downloading_audio, 45, ...), then ResolveMusicURL: links, or
\* an error. Which URLs of links are empty is decided when the loop reads
\* them: loc[w].links holds the sources read so far whose URL is not empty.
AudioResolve(w) ==
    /\ pc[w] = "au_resolve"
    /\ ~panicked
    /\ items' = UpdateStatus(items, loc[w].id, StatusDownloadingAudio, 45,
                             "Resolving audio sources...")
    /\ emitted' = EvIf(items, loc[w].id, "updated")
    /\ UNCHANGED <<tok, tempDirs, fileIndex, targetFile>>
    /\ \/ /\ loc' = [loc EXCEPT ![w].src = 1, ![w].called = TRUE]
          /\ Step(w, "au_src")
       \/ /\ loc' = [loc EXCEPT ![w].called = TRUE]
          /\ Step(w, "au_search")

\* the locals once the loop is left
LoopExit(l) == [l EXCEPT !.src = 0, !.links = {}, !.tried = {}, !.svcs = <<>>]

\* the audio is there, or the run is over: no call can follow
NotLate(l) == [l EXCEPT !.late = FALSE]

\* the loop over config.AudioSourcePriority moves on from source l.src, where
\* l are the locals of w
NextSource(w, l) ==
    /\ ~panicked
    /\ UNCHANGED <<tok, tempDirs, fileIndex, targetFile>>
    /\ IF l.src < Len(AudioSourcePriority)
       THEN /\ loc' = [loc EXCEPT ![w] = [l EXCEPT !.src = l.src + 1, !.svcs = <<>>]]
            /\ Step(w, "au_src")
       ELSE /\ loc' = [loc EXCEPT ![w] = LoopExit(l)]
            /\ Step(w, "au_search")

\* the values a URL of links can have: empty, or a URL
LinkURLs == {"", "u"}

\* a loop that also tries the sources without a URL
SkipSourceNever(source, url) == FALSE

\* switch source { case "tidal": ... }; if downloadURL == "" { continue }
SkipSource(source, url) ==
    \/ source \notin {"tidal", "qobuz", "amazon", "deezer"}
    \/ url = ""

\* loop head: cancellation check; a source without a resolved URL is skipped
AudioSource(w) ==
    /\ pc[w] = "au_src"
    /\ IF Done(w)
       THEN /\ ~panicked
            /\ emitted' = <<>>
            /\ Locals(w, "ret")
            /\ UNCHANGED <<items, tok, tempDirs, fileIndex, targetFile>>
            /\ Step(w, "ret")
       ELSE \E url \in LinkURLs :
              LET source == AudioSourcePriority[loc[w].src]
                  l == IF url = "" THEN loc[w]
                       ELSE [loc[w] EXCEPT !.links = @ \cup {source}]
              IN IF SkipSource(source, url)
                 THEN /\ NextSource(w, l)
                      /\ emitted' = <<>>
                      /\ UNCHANGED items
                 ELSE /\ ~panicked
                      /\ emitted' = <<>>
                      /\ loc' = [loc EXCEPT ![w] = l]
                      /\ UNCHANGED <<items, tok, tempDirs, fileIndex, targetFile>>
                      /\ Step(w, "au_try")

\* the locals after a service download was called for the current source
Tried(l) == [l EXCEPT !.tried = @ \cup {AudioSourcePriority[l.src]}, !.called = TRUE]

\* how a lucida server answers: a track with a flac format, a track with mp3
\* only, a track without formats, {"success": false}, a 5xx status with an
\* empty body, or no answer at all
ServerKinds == {"flac", "mp3", "noformat", "apierr", "5xx", "neterr"}

\* l.client.Head(l.baseURL): err != nil -> false, else resp.StatusCode < 500
IsAvailable(kind) == kind \notin {"neterr", "5xx"}

\* fetchTrackData: POST to l.baseURL + /api/load; the error it returns, or
\* "" with the response
fetchTrackData(kind) ==
    CASE kind = "neterr" -> "API request failed"
      [] kind = "5xx"    -> "failed to parse response"
      [] kind = "apierr" -> "API error"
      [] OTHER           -> ""

\* strings.ToLower on the format names in use
ToLower(s) ==
    CASE s = "FLAC" -> "flac"
      [] OTHER      -> s

\* the entries of resp.Formats: a format name and a download URL, which the
\* JSON may leave empty
FormatEntries == [format : {"flac", "FLAC", "wav", "mp3"}, url : {"", "u"}]

\* the format lists of a response
FormatLists == UNION {[1..n -> FormatEntries] : n \in 0..MaxFormats}

\* for _, f := range resp.Formats { if strings.ToLower(f.Format) == name {
\* ...; break } }: the index of the entry the loop stops at, 0 for none
FirstMatch(formats, name) ==
    IF \E i \in DOMAIN formats : ToLower(formats[i].format) = name
    THEN CHOOSE i \in DOMAIN formats :
            /\ ToLower(formats[i].format) = name
            /\ \A j \in 1..(i - 1) : ToLower(formats[j].format) # name
    ELSE 0

\* the URL of the entry at index i, "" for index 0
URLAt(formats, i) == IF i = 0 THEN "" ELSE formats[i].url

\* the selection of Download: the exact match first; with downloadURL still
\* empty and format "flac" the priorities flac, wav, mp3, each by its first
\* entry, until downloadURL is set; the index selected, 0 for none
SelectFormat(formats, format) ==
    LET f == ToLower(format)
        priorities == <<"flac", "wav", "mp3">>
        set == {k \in DOMAIN priorities :
                    URLAt(formats, FirstMatch(formats, priorities[k])) # ""}
    IN IF URLAt(formats, FirstMatch(formats, f)) # ""
       THEN FirstMatch(formats, f)
       ELSE IF f = "flac" /\ set # {}
            THEN FirstMatch(formats, priorities[CHOOSE k \in set : \A m \in set : k <= m])
            ELSE 0

\* resp.Formats of a server of the given kind
FormatsOf(kind) ==
    CASE kind = "flac" -> <<[format |-> "flac", url |-> "u"]>>
      [] kind = "mp3"  -> <<[format |-> "mp3", url |-> "u"]>>
      [] OTHER         -> <<>>

\* Download(url, dir, "flac"): the format picked from resp.Formats, exact
\* match first, then the first of flac, wav, mp3; "" when there is none
PickFormats ==
    [kind \in ServerKinds |->
        LET formats == FormatsOf(kind)
            i == SelectFormat(formats, "flac")
        IN IF i = 0 THEN "" ELSE ToLower(formats[i].format)]

PickFormat(kind) == PickFormats[kind]

\* a download call: the service, what its IsAvailable answers at the time,
\* and whether the call returned a result
Call(svc, avail, res) == [svc |-> svc, avail |-> avail, res |-> res]

\* the locals l after such a call, started with itemCtx done or not
Asked(l, call, done) ==
    [Tried(l) EXCEPT !.svcs = Append(@, call), !.late = @ \/ done]

\* UpdateStatus(50, "Downloading from <source>..."); for a tidal source with
\* tidal-hifi available UpdateStatus(51, ...) and tidalHifiService.Download
AudioTry(w) ==
    /\ pc[w] = "au_try"
    /\ ~panicked
    /\ UNCHANGED <<tok, tempDirs, fileIndex, targetFile>>
    /\ \E tidalHifi \in BOOLEAN :
         IF AudioSourcePriority[loc[w].src] = "tidal" /\ tidalHifi
         THEN /\ items' = UpdateStatus(items, loc[w].id, StatusDownloadingAudio, 51,
                                       "Downloading...")
              /\ emitted' = EvIf(items, loc[w].id, "updated") \o EvIf(items, loc[w].id, "updated")
              /\ \E res \in BOOLEAN :
                   /\ loc' = [loc EXCEPT ![w] =
                                 Asked(loc[w], Call("tidal-hifi", TRUE, res), Done(w))]
                   /\ Step(w, IF res THEN "au_ok" ELSE "au_lucida")
         ELSE /\ items' = UpdateStatus(items, loc[w].id, StatusDownloadingAudio, 50,
                                       "Downloading...")
              /\ emitted' = EvIf(items, loc[w].id, "updated")
              /\ UNCHANGED loc
              /\ Step(w, "au_lucida")

\* lucidaService.Download against a server of the given kind gives a file
LucidaResult(kind, fileOk) ==
    fetchTrackData(kind) = "" /\ PickFormat(kind) # "" /\ fileOk

\* result == nil: lucidaService.Download, whatever its IsAvailable would
\* answer; still nil and orpheus available: on to orpheus; else the next
\* source
AudioLucida(w) ==
    /\ pc[w] = "au_lucida"
    /\ ~panicked
    /\ items' = items
    /\ emitted' = <<>>
    /\ \E kind \in ServerKinds, fileOk \in BOOLEAN, orpheus \in BOOLEAN :
         LET res == LucidaResult(kind, fileOk)
             l == Asked(loc[w], Call("lucida", IsAvailable(kind), res), Done(w))
         IN IF res \/ orpheus
            THEN /\ loc' = [loc EXCEPT ![w] = l]
                 /\ UNCHANGED <<tok, tempDirs, fileIndex, targetFile>>
                 /\ Step(w, IF res THEN "au_ok" ELSE "au_orpheus")
            ELSE NextSource(w, l)

\* UpdateStatus(52, "Trying OrpheusDL for <source>..."), then its download
AudioOrpheus(w) ==
    /\ pc[w] = "au_orpheus"
    /\ ~panicked
    /\ items' = UpdateStatus(items, loc[w].id, StatusDownloadingAudio, 52,
                             "Trying OrpheusDL...")
    /\ emitted' = EvIf(items, loc[w].id, "updated")
    /\ \E res \in BOOLEAN :
         LET l == Asked(loc[w], Call("orpheus", TRUE, res), Done(w))
         IN IF res
            THEN /\ loc' = [loc EXCEPT ![w] = l]
                 /\ UNCHANGED <<tok, tempDirs, fileIndex, targetFile>>
                 /\ Step(w, "au_ok")
            ELSE NextSource(w, l)

\* a download succeeded: record source and path, leave the loop
AudioOk(w) ==
    /\ pc[w] = "au_ok"
    /\ ~panicked
    /\ items' = updateItem(items, loc[w].id,
                   [audioSource |-> AudioSourcePriority[loc[w].src], audioPath |-> "a"])
    /\ emitted' = EvIf(items, loc[w].id, "updated")
    /\ loc' = [loc EXCEPT ![w] = [NotLate(LoopExit(loc[w])) EXCEPT !.audioDownloaded = TRUE]]
    /\ UNCHANGED <<tok, tempDirs, fileIndex, targetFile>>
    /\ Step(w, "mux_chk")

\* a search fallback that does not look at the artist
SearchGuardNoArtist(audioDownloaded, artist, title) ==
    ~audioDownloaded /\ title # ""

\* !audioDownloaded && videoInfo.Artist != "" && videoInfo.Title != ""
SearchGuard(audioDownloaded, artist, title) ==
    ~audioDownloaded /\ artist # "" /\ title # ""

\* the search fallback is not under way
NoInfo(l) == [l EXCEPT !.info = <<>>]

\* the guard of the search fallback, for the artist and title of videoInfo;
\* UpdateStatus(55, "Searching Tidal for track...") when it holds, otherwise
\* straight to the extraction fallback
AudioSearch(w) ==
    /\ pc[w] = "au_search"
    /\ \E artist \in {"", "A"}, title \in {"", "T"} :
         IF SearchGuard(loc[w].audioDownloaded, artist, title)
         THEN /\ ~panicked
              /\ items' = UpdateStatus(items, loc[w].id, StatusDownloadingAudio, 55,
                                       "Searching Tidal for track...")
              /\ emitted' = EvIf(items, loc[w].id, "updated")
              /\ loc' = [loc EXCEPT ![w].info = <<artist, title>>]
              /\ UNCHANGED <<tok, tempDirs, fileIndex, targetFile>>
              /\ Step(w, "au_search_run")
         ELSE RunnerLocal(w, "au_fb")

\* tidalHifiService.IsAvailable(): the search is made only when it is
AudioSearchRun(w) ==
    /\ pc[w] = "au_search_run"
    /\ ~panicked
    /\ emitted' = <<>>
    /\ UNCHANGED <<items, tok, tempDirs, fileIndex, targetFile>>
    /\ \E avail \in BOOLEAN :
         IF avail
         THEN /\ loc' = [loc EXCEPT ![w].info = Append(@, "available")]
              /\ Step(w, "au_search_dl")
         ELSE /\ loc' = [loc EXCEPT ![w] = NoInfo(loc[w])]
              /\ Step(w, "au_fb")

\* tidalHifiService.DownloadBySearch: a result is recorded as the audio of
\* the item, without one the extraction fallback is next
AudioSearchDownload(w) ==
    /\ pc[w] = "au_search_dl"
    /\ ~panicked
    /\ UNCHANGED <<tok, tempDirs, fileIndex, targetFile>>
    /\ \/ /\ items' = updateItem(items, loc[w].id,
                         [audioSource |-> "tidal-search", audioPath |-> "a"])
          /\ emitted' = EvIf(items, loc[w].id, "updated")
          /\ loc' = [loc EXCEPT ![w] = [NotLate(NoInfo(loc[w])) EXCEPT
                                            !.audioDownloaded = TRUE, !.called = TRUE]]
          /\ Step(w, "mux_chk")
       \/ /\ items' = items
          /\ emitted' = <<>>
          /\ loc' = [loc EXCEPT ![w] = [NoInfo(loc[w]) EXCEPT !.called = TRUE,
                                                              !.late = @ \/ Done(w)]]
          /\ Step(w, "au_fb")

\* !audioDownloaded: extract from the video if there is one, else give up
AudioFallback(w) ==
    /\ pc[w] = "au_fb"
    /\ IF loc[w].videoPath # ""
       THEN RunnerUpdate(w, StatusDownloadingAudio, 55, "Extracting audio from video...",
                         "au_extract")
       ELSE RunnerFail(w)

\* ExtractAudioFromVideo: an error is fatal
AudioExtract(w) ==
    /\ pc[w] = "au_extract"
    /\ \/ RunnerFail(w)
       \/ /\ ~panicked
          /\ items' = updateItem(items, loc[w].id,
                         [audioSource |-> "extracted", audioPath |-> "a"])
          /\ emitted' = EvIf(items, loc[w].id, "updated")
          /\ loc' = [loc EXCEPT ![w] = NotLate(loc[w])]
          /\ UNCHANGED <<tok, tempDirs, fileIndex, targetFile>>
          /\ Step(w, "mux_chk")

\* stage 4: cancellation check
MuxCheck(w) ==
    /\ pc[w] = "mux_chk"
    /\ CtxCheck(w, "mux_start")

\* UpdateStatus(muxing, 70, "Muxing video and audio...")
MuxStart(w) ==
    /\ pc[w] = "mux_start"
    /\ RunnerUpdate(w, StatusMuxing, 70, "Muxing video and audio...", "mux_get")

\* CheckFileConflict(path): a file exists at the path
CheckFileConflict(file) == file # "none"

\* ResolveConflict(path): the first free path with a " (n)" suffix
ResolveConflict(path) == path \o " (2)"

\* the output path of the mux: the generated path, or on a conflict the
\* resolved one
OutputPath(file) ==
    IF CheckFileConflict(file) THEN ResolveConflict(TargetPath) ELSE TargetPath

\* item = q.GetItem(id), used unguarded at item.PlaylistName; the output path;
\* os.MkdirAll of the output directory: an error is fatal
MuxGetItem(w) ==
    /\ pc[w] = "mux_get"
    /\ IF GetItem(items, loc[w].id) = NoItem
       THEN RunnerPanic(w)
       ELSE \/ RunnerFail(w)
            \/ /\ ~panicked
               /\ emitted' = <<>>
               /\ loc' = [loc EXCEPT ![w].out = OutputPath(targetFile)]
               /\ UNCHANGED <<items, tok, tempDirs, fileIndex, targetFile>>
               /\ Step(w, "mux_run")

\* UpdateStatus(muxing, 80, "Creating FLAC file..." / "Creating MKV file...")
MuxRun(w) ==
    /\ pc[w] = "mux_run"
    /\ RunnerUpdate(w, StatusMuxing, 80,
                    IF loc[w].audioOnly THEN "Creating FLAC file..." ELSE "Creating MKV file...",
                    "mux_exec")

\* the mux: an error is fatal; else stage 4.5's cancellation check, and with
\* lyrics disabled stage 5's directly after it
MuxExec(w) ==
    /\ pc[w] = "mux_exec"
    /\ \/ RunnerFail(w)
       \/ \E next \in {"ly_run", "org_start"} :
            /\ ~panicked
            /\ emitted' = <<>>
            /\ targetFile' = IF loc[w].out = TargetPath THEN "new" ELSE targetFile
            /\ Locals(w, IF Done(w) THEN "ret" ELSE next)
            /\ UNCHANGED <<items, tok, tempDirs, fileIndex>>
            /\ Step(w, IF Done(w) THEN "ret" ELSE next)

\* a lyrics stage that reports a failure of FetchLyrics or of the embedding
LyricsFatal(w, lyricsErr) ==
    IF lyricsErr
    THEN RunnerFail(w)
    ELSE RunnerUpdate(w, StatusOrganizing, 85, "Fetching lyrics...", "org_chk")

\* UpdateStatus(organizing, 85, "Fetching lyrics..."), FetchLyrics and the
\* embedding or the save of the lyrics file: an error is logged only
LyricsFetch(w, lyricsErr) ==
    RunnerUpdate(w, StatusOrganizing, 85, "Fetching lyrics...", "org_chk")

\* stage 4.5 with lyrics enabled, whatever the outcome of the lyrics calls
Lyrics(w) ==
    /\ pc[w] = "ly_run"
    /\ \E lyricsErr \in BOOLEAN : LyricsFetch(w, lyricsErr)

\* stage 5: cancellation check
OrganizeCheck(w) ==
    /\ pc[w] = "org_chk"
    /\ CtxCheck(w, "org_start")

\* UpdateStatus(organizing, 90, "Organizing files..."); NFO and poster are
\* never fatal
Organize(w) ==
    /\ pc[w] = "org_start"
    /\ ~panicked
    /\ items' = UpdateStatus(items, loc[w].id, StatusOrganizing, 90, "Organizing files...")
    /\ emitted' = EvIf(items, loc[w].id, "updated")
    /\ fileIndex' = IF fileIndex.nil THEN fileIndex ELSE AddEntry(fileIndex, loc[w].out)
    /\ UNCHANGED <<loc, tok, tempDirs, targetFile>>
    /\ Step(w, "fin_complete")

\* q.updateItem(complete, 100, "Complete", OutputPath, FileSize, CompletedAt)
Finish(w) ==
    /\ pc[w] = "fin_complete"
    /\ ~panicked
    /\ items' = updateItem(items, loc[w].id, CompleteUpdate("Complete", loc[w].out))
    /\ emitted' = EvIf(items, loc[w].id, "updated")
    /\ UNCHANGED <<loc, tok, tempDirs, fileIndex, targetFile>>
    /\ Step(w, "fin_emit")

\* history, then q.emit("completed")
FinishEmit(w) ==
    /\ pc[w] = "fin_emit"
    /\ ~panicked
    /\ history' = IF ~history.nil /\ Has(items, loc[w].id)
                  THEN AddFromQueueItem(history, loc[w].id)
                  ELSE history
    /\ emitted' = <<Ev("completed", loc[w].id)>>
    /\ Locals(w, "ret")
    /\ pc' = [pc EXCEPT ![w] = "ret"]
    /\ UNCHANGED <<items, tok, tempDirs, fileIndex, targetFile>>
    /\ UNCHANGED <<nextId, retries, ctxDone, panicked, persistVars, svcVars, lockVars, sidecar, stats>>

\* the item keeps the cancel func of a finished run: calling it does nothing
Retire(its, w) ==
    [i \in DOMAIN its |->
        IF its[i].cancelFunc = w THEN [its[i] EXCEPT !.cancelFunc = "spent"] ELSE its[i]]

\* return: the deferred calls, os.RemoveAll(tempDir) then cancel()
Return(w) ==
    /\ pc[w] = "ret"
    /\ ~panicked
    /\ tempDirs' = RemoveTemp(w, tempDirs)
    /\ UNCHANGED <<fileIndex, targetFile>>
    /\ items' = Retire(items, w)
    /\ tok' = [tok EXCEPT ![w] = FALSE]
    /\ loc' = [loc EXCEPT ![w] = LocIdle]
    /\ emitted' = <<>>
    /\ Step(w, "idle")

-----------------------------------------------------------------------------
(* The pipeline specification *)

\* no SaveQueue call in progress
NoSave == [pc |-> "none", data |-> <<>>]

\* no LucidaService in use
NoService ==
    [op |-> "none", endpoints |-> <<>>, requests |-> <<>>, result |-> "", file |-> "none"]

SvcIdle == lucida = NoService

\* q.mutex, a sync.RWMutex, unlocked
NoLock == [writer |-> "none", readers |-> {}]

\* the steps of the pipeline take the lock inside one step: between steps it
\* is free
LockIdle == mutex = NoLock

PersistIdle ==
    /\ disk = [kind |-> "absent"]
    /\ mainPc = "run"
    /\ autoPc = "off"
    /\ save = NoSave
    /\ tickReady = FALSE
    /\ lateSaves = 0
    /\ finalSaves = 0

PipeIdle ==
    /\ nextId = 1
    /\ retries = 0
    /\ pc = [w \in Workers |-> "idle"]
    /\ loc = [w \in Workers |-> LocIdle]
    /\ tok = [w \in Workers |-> FALSE]
    /\ tempDirs = {}
    /\ emitted = <<>>
    /\ panicked = FALSE

\* NewQueue: an empty queue, a live context, idle workers
Init ==
    /\ items = <<>>
    /\ ctxDone = FALSE
    /\ PipeIdle
    /\ fileIndex = IndexOf({"existing", TargetPath})
    /\ targetFile = "other"
    /\ PersistIdle
    /\ SvcIdle
    /\ LockIdle
    /\ history = NoHistory
    /\ sidecar = NoSidecar
    /\ stats = NoStats

\* the requests enqueued while two workers run: title and video URL, the
\* title known or not, the URL one that parses
Requests == {<<"", "V">>, <<"T", "V">>}

\* the requests of a single run: every title with every video URL
RunRequests == {"", "T"} \X VideoURLs

\* the operations on the items of the queue
QueueControl ==
    \/ \E id \in Ids : Cancel(id)
    \/ \E id \in Ids : Remove(id)
    \/ \E id \in Ids, t \in Overrides : RetryWithOverride(id, t)
    \/ Shutdown

QueueOp ==
    \/ \E r \in Requests : Enqueue(r[1], r[2])
    \/ QueueControl

pipeline(w) ==
    \/ FetchItem(w)
    \/ MakeTempDir(w)
    \/ Stage1Update(w)
    \/ Stage1Parse(w)
    \/ Stage1Metadata(w)
    \/ SkipCheck(w)
    \/ SkipFound(w)
    \/ SkipGetItem(w)
    \/ SkipSame(w)
    \/ SkipCopyStart(w)
    \/ SkipCopy(w)
    \/ VideoCheck(w)
    \/ VideoStart(w)
    \/ VideoRun(w)
    \/ AudioCheck(w)
    \/ AudioStart(w)
    \/ AudioResolve(w)
    \/ AudioSource(w)
    \/ AudioTry(w)
    \/ AudioLucida(w)
    \/ AudioOrpheus(w)
    \/ AudioOk(w)
    \/ AudioSearch(w)
    \/ AudioSearchRun(w)
    \/ AudioSearchDownload(w)
    \/ AudioFallback(w)
    \/ AudioExtract(w)
    \/ MuxCheck(w)
    \/ MuxStart(w)
    \/ MuxGetItem(w)
    \/ MuxRun(w)
    \/ MuxExec(w)
    \/ Lyrics(w)
    \/ OrganizeCheck(w)
    \/ Organize(w)
    \/ Finish(w)
    \/ FinishEmit(w)
    \/ Return(w)

\* Queue.processItem(id) on worker w, for the ids handed out
processItem(w) ==
    \/ \E id \in Ids : Claim(w, id)
    \/ pipeline(w)

Next ==
    \/ QueueOp
    \/ \E w \in Workers : processItem(w)

Spec == Init /\ [][Next]_vars

\* one worker, and a queue whose file index is not set, or holds a file
\* elsewhere (the target path free, or taken by a file that is not indexed),
\* or holds the file at the item's target path
InitRun ==
    /\ items = <<>>
    /\ ctxDone = FALSE
    /\ PipeIdle
    /\ \E fs \in {<<NoIndex, "none">>, <<IndexOf({"existing"}), "none">>,
                   <<IndexOf({"existing"}), "other">>, <<IndexOf({TargetPath}), "other">>} :
          /\ fileIndex = fs[1]
          /\ targetFile = fs[2]
    /\ PersistIdle
    /\ SvcIdle
    /\ LockIdle
    /\ history = NoHistory
    /\ sidecar = NoSidecar
    /\ stats = NoStats

NextRun ==
    \/ \E r \in RunRequests : Enqueue(r[1], r[2])
    \/ QueueControl
    \/ processItem("w1")

SpecRun == InitRun /\ [][NextRun]_vars

\* the same queue with a history store configured (q.history non-nil, empty)
InitHistory ==
    /\ items = <<>>
    /\ ctxDone = FALSE
    /\ PipeIdle
    /\ \E fs \in {<<NoIndex, "none">>, <<IndexOf({"existing"}), "none">>,
                   <<IndexOf({"existing"}), "other">>, <<IndexOf({TargetPath}), "other">>} :
          /\ fileIndex = fs[1]
          /\ targetFile = fs[2]
    /\ PersistIdle
    /\ SvcIdle
    /\ mutex = NoLock
    /\ history = HistoryOf({})
    /\ sidecar = NoSidecar
    /\ stats = NoStats

SpecHistory == InitHistory /\ [][NextRun]_vars

\* the worker goroutine keeps running: no step of processItem is postponed
\* for ever
SpecRunFair == SpecRun /\ WF_vars(processItem("w1"))

\* the same worker on a queue nobody retries: every item is run at most once
NextOneRun ==
    \/ \E r \in RunRequests : Enqueue(r[1], r[2])
    \/ \E id \in Ids : Cancel(id)
    \/ \E id \in Ids : Remove(id)
    \/ Shutdown
    \/ processItem("w1")

SpecOneRunFair == InitRun /\ [][NextOneRun]_vars /\ WF_vars(processItem("w1"))

\* the ids of two items in the queue at once
PairIds == {1, 2}

\* an item whose run on w1 has downloaded the video and the audio (from
\* tidal) and stands at the cancellation check before the mux
DownloadedItem ==
    [NewItem(1, "T") EXCEPT !.status = StatusDownloadingAudio, !.progress = 51,
                            !.stage = "Downloading...", !.started = TRUE,
                            !.cancelFunc = "w1", !.videoPath = "v",
                            !.audioPath = "a", !.audioSource = "tidal"]

\* the locals of that run
DownloadedLocals ==
    [LocIdle EXCEPT !.id = 1, !.url = "V", !.hasTemp = TRUE, !.videoPath = "v",
                    !.audioDownloaded = TRUE, !.called = TRUE]

\* two items enqueued for the same track, so that their generated target
\* paths are equal: the first with its downloads done, the second pending
\* with its title still to be fetched; the file index holds a file
\* elsewhere, the target path is free
InitPair ==
    /\ items = <<DownloadedItem, NewItem(2, "")>>
    /\ ctxDone = FALSE
    /\ nextId = 3
    /\ retries = 0
    /\ pc = [w \in Workers |-> IF w = "w1" THEN "mux_chk" ELSE "idle"]
    /\ loc = [w \in Workers |-> IF w = "w1" THEN DownloadedLocals ELSE LocIdle]
    /\ tok = [w \in Workers |-> FALSE]
    /\ tempDirs = {1}
    /\ emitted = <<>>
    /\ panicked = FALSE
    /\ fileIndex = IndexOf({"existing"})
    /\ targetFile = "none"
    /\ PersistIdle
    /\ SvcIdle
    /\ LockIdle
    /\ history = NoHistory
    /\ sidecar = NoSidecar
    /\ stats = NoStats

\* both workers run processItem on them, under Cancel and Shutdown
NextPair ==
    \/ \E id \in PairIds : Cancel(id)
    \/ Shutdown
    \/ \E w \in Workers :
          \/ \E id \in PairIds : Claim(w, id)
          \/ pipeline(w)

SpecPair == InitPair /\ [][NextPair]_vars

\* an item in error state as a failed run (or the tests' addErrorItem) leaves it
ErrorItem(artist, title, videoURL, spotifyURL, match) ==
    [NewItem(1, title) EXCEPT !.status = StatusError,
                              !.error = "all_download_attempts_failed",
                              !.started = TRUE,
                              !.artist = artist,
                              !.videoURL = videoURL,
                              !.spotifyURL = spotifyURL,
                              !.matchCandidates = match,
                              !.matchDiagnostics = match]

\* a queue that holds one failed item, no worker running
InitRetry ==
    /\ \E a \in {"", "A"}, t \in {"", "T"}, v \in {"", "V"}, u \in {"", "S"},
          m \in {"nil", "set"} :
          items = <<ErrorItem(a, t, v, u, m)>>
    /\ ctxDone = FALSE
    /\ nextId = 2
    /\ retries = 0
    /\ pc = [w \in Workers |-> "idle"]
    /\ loc = [w \in Workers |-> LocIdle]
    /\ tok = [w \in Workers |-> FALSE]
    /\ tempDirs = {}
    /\ emitted = <<>>
    /\ panicked = FALSE
    /\ fileIndex = NoIndex
    /\ targetFile = "none"
    /\ PersistIdle
    /\ SvcIdle
    /\ LockIdle
    /\ history = NoHistory
    /\ sidecar = NoSidecar
    /\ stats = NoStats

NextRetry ==
    \/ \E id \in Ids, req \in RetryRequests : RetryWithOverride(id, req)
    \/ \E id \in Ids : Cancel(id)
    \/ \E id \in Ids : Remove(id)

SpecRetry == InitRetry /\ [][NextRetry]_vars

-----------------------------------------------------------------------------
(* Persistence: SaveQueue, LoadQueue, AutoSave *)

\* the fields encoding/json writes: every exported field, not cancelFunc
PersistFields == DOMAIN NewItem(0, "") \ {"cancelFunc"}

\* json.MarshalIndent of one item and of the item list
Marshal(it) == [f \in PersistFields |-> it[f]]
MarshalItems(its) == [i \in DOMAIN its |-> Marshal(its[i])]

\* json.Unmarshal of one item: the fields of the file, a nil cancel func
Unmarshal(j) ==
    [f \in PersistFields \cup {"cancelFunc"} |-> IF f = "cancelFunc" THEN "nil" ELSE j[f]]

\* a normalisation that resets every status that is not terminal
NormalizeNonTerminal(it) ==
    IF it.status \notin Terminal
    THEN [it EXCEPT !.status = StatusPending, !.progress = 0,
                    !.stage = "Waiting... (resumed)"]
    ELSE it

\* a normalisation whose switch misses the last in-progress status
NormalizeMissingCase(it) ==
    IF it.status \in {StatusFetchingInfo, StatusDownloadingVideo,
                      StatusDownloadingAudio, StatusMuxing}
    THEN [it EXCEPT !.status = StatusPending, !.progress = 0,
                    !.stage = "Waiting... (resumed)"]
    ELSE it

\* a normalisation that forgets to reset the progress
NormalizeKeepProgress(it) ==
    IF it.status \in InFlight
    THEN [it EXCEPT !.status = StatusPending, !.stage = "Waiting... (resumed)"]
    ELSE it

\* LoadQueue's loop body: "Reset in-progress items to pending"
NormalizeItem(it) ==
    IF it.status \in {StatusFetchingInfo, StatusDownloadingVideo,
                      StatusDownloadingAudio, StatusMuxing, StatusOrganizing}
    THEN [it EXCEPT !.status = StatusPending, !.progress = 0,
                    !.stage = "Waiting... (resumed)"]
    ELSE it

\* status, progress and stage an item can have when a save catches it
FileTriples ==
    {<<StatusPending, 0, "">>,
     <<StatusPending, 0, "Waiting... (resumed)">>,
     <<StatusFetchingInfo, 5, "Parsing URL...">>,
     <<StatusDownloadingVideo, 40, "Video downloaded">>,
     <<StatusDownloadingAudio, 45, "Resolving audio sources...">>,
     <<StatusMuxing, 70, "Muxing video and audio...">>,
     <<StatusOrganizing, 90, "Organizing files...">>,
     <<StatusComplete, 100, "Complete">>,
     <<StatusError, 45, "Resolving audio sources...">>,
     <<StatusCancelled, 10, "Downloading video...">>}

FileItem(id, t) ==
    [Marshal(NewItem(id, "T")) EXCEPT !.status = t[1], !.progress = t[2], !.stage = t[3],
                                      !.started = t[1] # StatusPending \/ t[3] # ""]

\* the item lists queue.json can hold when the process starts
FileLists ==
    UNION {{[i \in 1..n |-> FileItem(i, l[i])] : l \in [1..n -> FileTriples]} :
             n \in 0..MaxFileItems}

\* the process starts: nothing in memory, queue.json as an earlier process
\* left it (or no file)
InitPersist ==
    /\ items = <<>>
    /\ ctxDone = FALSE
    /\ PipeIdle
    /\ fileIndex = NoIndex
    /\ targetFile = "none"
    /\ disk \in {[kind |-> "absent"]} \cup {[kind |-> "full", items |-> l] : l \in FileLists}
    /\ mainPc = "boot"
    /\ autoPc = "off"
    /\ save = NoSave
    /\ tickReady = FALSE
    /\ lateSaves = 0
    /\ finalSaves = 0
    /\ SvcIdle
    /\ LockIdle
    /\ history = NoHistory
    /\ sidecar = NoSidecar
    /\ stats = NoStats

\* what LoadQueue makes of the items of a file that parses
LoadItems(file) == [i \in DOMAIN file |-> NormalizeItem(Unmarshal(file[i]))]

\* LoadQueue: no file is a fresh start; a file that does not parse is an
\* error and q.items stays as it is; otherwise the normalised items
LoadQueue ==
    /\ mainPc = "boot"
    /\ IF disk.kind = "absent"
       THEN /\ mainPc' = "fresh"
            /\ UNCHANGED items
       ELSE IF disk.kind # "full"
       THEN /\ mainPc' = "loadfail"
            /\ UNCHANGED items
       ELSE /\ mainPc' = "loaded"
            /\ items' = LoadItems(disk.items)
    /\ UNCHANGED <<ctxDone, pipeVars, svcVars, lockVars, history, sidecar, stats, disk, autoPc, save, tickReady, lateSaves, finalSaves>>

\* AutoSave(interval): the goroutine starts and creates its ticker
AutoSave ==
    /\ mainPc # "boot"
    /\ autoPc = "off"
    /\ autoPc' = "select"
    /\ UNCHANGED <<items, ctxDone, pipeVars, svcVars, lockVars, history, sidecar, stats, disk, mainPc, save, tickReady, lateSaves, finalSaves>>

\* the ticker fires; its channel holds one tick, further ones are dropped
Tick ==
    /\ autoPc \notin {"off", "stopped"}
    /\ ~tickReady
    /\ tickReady' = TRUE
    /\ UNCHANGED <<items, ctxDone, pipeVars, svcVars, lockVars, history, sidecar, stats, disk, mainPc, autoPc, save, lateSaves, finalSaves>>

Late(n) == IF ctxDone THEN (IF n < MaxLate THEN n + 1 ELSE MaxLate) ELSE n

\* the select statement proceeds on either of its cases
AutoSaveSelect ==
    /\ autoPc = "select"
    /\ autoPc' # "select"

\* select chose case <-ticker.C: q.SaveQueue()
AutoSaveTick ==
    /\ autoPc = "select"
    /\ tickReady
    /\ tickReady' = FALSE
    /\ autoPc' = "tick"
    /\ save' = [pc |-> "lock", data |-> <<>>]
    /\ lateSaves' = Late(lateSaves)
    /\ UNCHANGED <<items, ctxDone, pipeVars, svcVars, lockVars, history, sidecar, stats, disk, mainPc, finalSaves>>

\* a shutdown branch that returns without saving
AutoSaveDoneNoSave ==
    /\ autoPc = "select"
    /\ ctxDone
    /\ autoPc' = "stopped"
    /\ UNCHANGED <<items, ctxDone, pipeVars, svcVars, lockVars, history, sidecar, stats, disk, mainPc, save, tickReady, lateSaves, finalSaves>>

\* select chose case <-q.ctx.Done(): "Final save on shutdown", then return
AutoSaveDone ==
    /\ autoPc = "select"
    /\ ctxDone
    /\ autoPc' = "final"
    /\ save' = [pc |-> "lock", data |-> <<>>]
    /\ lateSaves' = Late(lateSaves)
    /\ finalSaves' = finalSaves + 1
    /\ UNCHANGED <<items, ctxDone, pipeVars, svcVars, lockVars, history, sidecar, stats, disk, mainPc, tickReady>>

\* SaveQueue returns to the AutoSave loop
SaveReturn ==
    /\ save' = NoSave
    /\ autoPc' = IF autoPc = "final" THEN "stopped" ELSE "select"
    /\ tickReady' = (tickReady /\ autoPc # "final")
    /\ UNCHANGED <<items, ctxDone, pipeVars, svcVars, lockVars, history, sidecar, stats, mainPc, lateSaves, finalSaves>>

\* SaveQueue: q.mutex.RLock(), json.MarshalIndent of q.items
SaveMarshal ==
    /\ save.pc = "lock"
    /\ save' = [pc |-> "open", data |-> MarshalItems(items)]
    /\ UNCHANGED <<items, ctxDone, pipeVars, svcVars, lockVars, history, sidecar, stats, disk, mainPc, autoPc, tickReady, lateSaves, finalSaves>>

\* os.WriteFile opens queue.json with O_WRONLY|O_CREATE|O_TRUNC
SaveOpen ==
    /\ save.pc = "open"
    /\ disk' = [kind |-> "empty"]
    /\ save' = [save EXCEPT !.pc = "write"]
    /\ UNCHANGED <<items, ctxDone, pipeVars, svcVars, lockVars, history, sidecar, stats, mainPc, autoPc, tickReady, lateSaves, finalSaves>>

\* a first part of the data has reached the file
SaveWritePart ==
    /\ save.pc = "write"
    /\ disk' = [kind |-> "partial"]
    /\ save' = [save EXCEPT !.pc = "write2"]
    /\ UNCHANGED <<items, ctxDone, pipeVars, svcVars, lockVars, history, sidecar, stats, mainPc, autoPc, tickReady, lateSaves, finalSaves>>

\* all of the data has reached the file; SaveQueue returns nil
SaveWriteAll ==
    /\ save.pc \in {"write", "write2"}
    /\ disk' = [kind |-> "full", items |-> save.data]
    /\ SaveReturn

\* MkdirAll, the open or the write failed; SaveQueue returns the error
SaveFail ==
    /\ save.pc \in {"open", "write", "write2"}
    /\ UNCHANGED disk
    /\ SaveReturn

SaveQueue == SaveMarshal \/ SaveOpen \/ SaveWritePart \/ SaveWriteAll \/ SaveFail

\* SaveQueue holds the read lock from its RLock to its return
WriteLockFree == save.pc \in {"none", "lock"}

\* the process dies and is started again: memory is lost, the file stays
Crash ==
    /\ mainPc # "boot"
    /\ items' = <<>>
    /\ ctxDone' = FALSE
    /\ mainPc' = "boot"
    /\ autoPc' = "off"
    /\ save' = NoSave
    /\ tickReady' = FALSE
    /\ lateSaves' = 0
    /\ finalSaves' = 0
    /\ emitted' = <<>>
    /\ UNCHANGED <<disk, nextId, retries, pc, loc, tok, tempDirs, fileIndex, targetFile, panicked, svcVars, lockVars, history, sidecar, stats>>

\* queue operations of the running process, under the writer lock
PersistQueueOp ==
    /\ mainPc # "boot"
    /\ WriteLockFree
    /\ \/ \E id \in Ids : Cancel(id)
       \/ \E id \in Ids : Remove(id)
       \/ Shutdown

NextAutoSave ==
    \/ LoadQueue
    \/ AutoSave
    \/ Tick
    \/ AutoSaveTick
    \/ AutoSaveDone
    \/ SaveQueue
    \/ PersistQueueOp

NextPersist ==
    \/ NextAutoSave
    \/ Crash

SpecPersist == InitPersist /\ [][NextPersist]_vars

\* the goroutine is scheduled, and select picks at random among its ready
\* cases, so a case that is ready again and again is taken
SpecAutoSave ==
    /\ InitPersist
    /\ [][NextAutoSave]_vars
    /\ WF_vars(LoadQueue)
    /\ WF_vars(AutoSave)
    /\ WF_vars(SaveQueue)
    /\ WF_vars(AutoSaveTick \/ AutoSaveDone)
    /\ SF_vars(AutoSaveDone)

-----------------------------------------------------------------------------
(* LucidaService (src/backend/audio_lucida.go) *)

\* the lists of servers a service is set up against, in order
EndpointLists ==
    UNION {[1..n -> ServerKinds] : n \in 1..MaxEndpoints}

\* the struct holds one base URL: of the servers it is set up against, the first
BaseURL == 1

\* a LucidaService against the servers eps, no call made yet
NewLucidaService(eps) ==
    [op |-> "idle", endpoints |-> eps, requests |-> <<>>, result |-> "", file |-> "none"]

\* LucidaService.IsAvailable
LucidaIsAvailable ==
    /\ lucida.op = "idle"
    /\ lucida' = [lucida EXCEPT
                    !.op = "IsAvailable",
                    !.requests = <<BaseURL>>,
                    !.result = IF IsAvailable(lucida.endpoints[BaseURL])
                               THEN "true" ELSE "false"]
    /\ UNCHANGED <<items, ctxDone, pipeVars, persistVars, lockVars, history, sidecar, stats>>

\* LucidaService.GetTrackInfo
LucidaGetTrackInfo ==
    /\ lucida.op = "idle"
    /\ lucida' = [lucida EXCEPT
                    !.op = "GetTrackInfo",
                    !.requests = <<BaseURL>>,
                    !.result = IF fetchTrackData(lucida.endpoints[BaseURL]) = ""
                               THEN "info"
                               ELSE fetchTrackData(lucida.endpoints[BaseURL])]
    /\ UNCHANGED <<items, ctxDone, pipeVars, persistVars, lockVars, history, sidecar, stats>>

\* LucidaService.Download up to the call of downloadFile: fetchTrackData,
\* the format, os.MkdirAll
LucidaDownload ==
    /\ lucida.op = "idle"
    /\ LET kind == lucida.endpoints[BaseURL]
           err == fetchTrackData(kind)
       IN \/ /\ err # ""
             /\ lucida' = [lucida EXCEPT !.op = "Download", !.requests = <<BaseURL>>,
                                         !.result = err]
          \/ /\ err = ""
             /\ PickFormat(kind) = ""
             /\ lucida' = [lucida EXCEPT !.op = "Download", !.requests = <<BaseURL>>,
                                         !.result = "format not available"]
          \/ /\ err = ""
             /\ PickFormat(kind) # ""
             /\ \/ lucida' = [lucida EXCEPT !.op = "Download", !.requests = <<BaseURL>>,
                                            !.result = "failed to create output directory"]
                \/ lucida' = [lucida EXCEPT !.op = "downloadFile", !.requests = <<BaseURL>>]
    /\ UNCHANGED <<items, ctxDone, pipeVars, persistVars, lockVars, history, sidecar, stats>>

\* downloadFile up to io.Copy: client.Get, the status, os.Create
LucidaDownloadFile ==
    /\ lucida.op = "downloadFile"
    /\ \/ \E e \in {"failed to start download", "download server returned",
                    "failed to create file"} :
            lucida' = [lucida EXCEPT !.op = "Download", !.result = "download failed: " \o e]
       \/ lucida' = [lucida EXCEPT !.op = "io.Copy", !.file = "partial"]
    /\ UNCHANGED <<items, ctxDone, pipeVars, persistVars, lockVars, history, sidecar, stats>>

\* io.Copy into the output file: an error removes the file
LucidaCopy ==
    /\ lucida.op = "io.Copy"
    /\ \/ lucida' = [lucida EXCEPT !.op = "Download", !.file = "none",
                                   !.result = "download failed: download interrupted"]
       \/ lucida' = [lucida EXCEPT !.op = "Download", !.file = "complete",
                                   !.result = PickFormat(lucida.endpoints[BaseURL])]
    /\ UNCHANGED <<items, ctxDone, pipeVars, persistVars, lockVars, history, sidecar, stats>>

\* the queue is not in use; a service set up against one or more servers
InitLucida ==
    /\ items = <<>>
    /\ ctxDone = FALSE
    /\ PipeIdle
    /\ fileIndex = NoIndex
    /\ targetFile = "none"
    /\ PersistIdle
    /\ LockIdle
    /\ history = NoHistory
    /\ sidecar = NoSidecar
    /\ stats = NoStats
    /\ \E eps \in EndpointLists : lucida = NewLucidaService(eps)

NextLucida ==
    \/ LucidaIsAvailable
    \/ LucidaGetTrackInfo
    \/ LucidaDownload
    \/ LucidaDownloadFile
    \/ LucidaCopy

SpecLucida == InitLucida /\ [][NextLucida]_vars

\* SanitizeFileName on a name given as its parts between path separators:
\* the separators are replaced by "_", one path component is left
SanitizeFileName(parts) ==
    IF Len(parts) = 1 THEN parts[1] ELSE parts[1] \o "_" \o parts[2]

\* the "<artist> - <title>" of a track, as the parts between separators
TrackNames == {<<"A - T">>, <<"..", "T">>}

\* filepath.Join(outputDir, fmt.Sprintf("%s.%s", safeTitle, ext)), a path as
\* the sequence of its components
OutputFile(outputDir, name, ext) ==
    outputDir \o <<SanitizeFileName(name) \o "." \o ext>>

\* a Download call on a response that has arrived: the formats listed, the
\* name of the track, the output directory and the format asked for
NewDownload(formats, name, format) ==
    [op |-> "select", formats |-> formats, name |-> name, format |-> format,
     dir |-> <<"tmp", "dir">>, picked |-> 0, result |-> "", resFormat |-> "",
     file |-> <<>>]

\* Download up to the call of downloadFile: the selection, "format not
\* available" without one, then os.MkdirAll
DownloadSelect ==
    /\ lucida.op = "select"
    /\ LET i == SelectFormat(lucida.formats, lucida.format) IN
       IF i = 0
       THEN lucida' = [lucida EXCEPT !.op = "returned",
                                     !.result = "format not available"]
       ELSE \/ lucida' = [lucida EXCEPT !.op = "returned",
                                        !.result = "failed to create output directory"]
            \/ lucida' = [lucida EXCEPT !.op = "downloadFile", !.picked = i]
    /\ UNCHANGED <<items, ctxDone, pipeVars, persistVars, lockVars, history, sidecar, stats>>

\* downloadFile and the return of Download: the file is there and the
\* result names it, or "download failed" (no file created, or the partial
\* file removed)
DownloadWrite ==
    /\ lucida.op = "downloadFile"
    /\ \/ lucida' = [lucida EXCEPT !.op = "returned", !.result = "download failed"]
       \/ lucida' = [lucida EXCEPT
                       !.op = "returned",
                       !.result = "ok",
                       !.resFormat = lucida.formats[lucida.picked].format,
                       !.file = OutputFile(lucida.dir, lucida.name,
                                           ToLower(lucida.formats[lucida.picked].format))]
    /\ UNCHANGED <<items, ctxDone, pipeVars, persistVars, lockVars, history, sidecar, stats>>

\* the queue is not in use; Download is called on some response
InitDownload ==
    /\ items = <<>>
    /\ ctxDone = FALSE
    /\ PipeIdle
    /\ fileIndex = NoIndex
    /\ targetFile = "none"
    /\ PersistIdle
    /\ LockIdle
    /\ history = NoHistory
    /\ sidecar = NoSidecar
    /\ stats = NoStats
    /\ \E formats \in FormatLists, name \in TrackNames, format \in {"flac", "FLAC", "mp3"} :
          lucida = NewDownload(formats, name, format)

NextDownload ==
    \/ DownloadSelect
    \/ DownloadWrite

SpecDownload == InitDownload /\ [][NextDownload]_vars

\* ---------------------------------------------------------------------------
\* The sidecar files of stage 5 (playlist.go 514-519, 641-665)
\* ---------------------------------------------------------------------------

\* outputExt: ".flac" for audio-only, ".mkv" for video+audio
OutputExt(audioOnly) == IF audioOnly THEN ".flac" ELSE ".mkv"

\* GenerateFilePath / GeneratePlaylistFilePath: the name built from the
\* metadata, in the output directory, with the extension
GenerateFilePath(outputDir, name, ext) == outputDir \o "/" \o name \o ext

\* outputPath[:len(outputPath)-4]
CutExt(outputPath) == SubSeq(outputPath, 1, Len(outputPath) - 4)

\* nfoPath := outputPath[:len(outputPath)-4] + ".nfo"
NFOPath(outputPath) == CutExt(outputPath) \o ".nfo"

\* posterPath := outputPath[:len(outputPath)-4] + "-poster.jpg"
PosterPath(outputPath) == CutExt(outputPath) \o "-poster.jpg"

\* output directories and file names of a run; a name may hold a dot and,
\* after ResolveConflict, a " (2)" suffix
OutputDirs == {"out", "out/A"}
OutputNames == {"A - T", "01 - A - T", "A - T.live", "A - T (2)"}

\* a run after its mux: the output path, config.GenerateNFO,
\* videoInfo.Thumbnail, and the sidecar files written so far
NewSidecar(outputPath, audioOnly, generateNFO, thumbnail) ==
    [op |-> "nfo", outputPath |-> outputPath, audioOnly |-> audioOnly,
     generateNFO |-> generateNFO, thumbnail |-> thumbnail, files |-> {}]

\* if config.GenerateNFO { WriteNFO(metadata, nfoPath, nfoOpts) }: an error
\* is logged only
SidecarNFO ==
    /\ sidecar.op = "nfo"
    /\ \E ok \in BOOLEAN :
         sidecar' = [sidecar EXCEPT
                        !.op = "poster",
                        !.files = IF sidecar.generateNFO /\ ok
                                  THEN @ \cup {NFOPath(sidecar.outputPath)}
                                  ELSE @]
    /\ UNCHANGED <<items, ctxDone, pipeVars, persistVars, svcVars, lockVars, history, stats>>

\* if videoInfo.Thumbnail != "" { DownloadPoster(thumbnail, posterPath) }: the
\* error is ignored
SidecarPoster ==
    /\ sidecar.op = "poster"
    /\ \E ok \in BOOLEAN :
         sidecar' = [sidecar EXCEPT
                        !.op = "done",
                        !.files = IF sidecar.thumbnail # "" /\ ok
                                  THEN @ \cup {PosterPath(sidecar.outputPath)}
                                  ELSE @]
    /\ UNCHANGED <<items, ctxDone, pipeVars, persistVars, svcVars, lockVars, history, stats>>

InitSidecar ==
    /\ items = <<>>
    /\ ctxDone = FALSE
    /\ PipeIdle
    /\ fileIndex = NoIndex
    /\ targetFile = "none"
    /\ PersistIdle
    /\ SvcIdle
    /\ LockIdle
    /\ history = NoHistory
    /\ \E dir \in OutputDirs, name \in OutputNames, audioOnly \in BOOLEAN,
          generateNFO \in BOOLEAN, thumbnail \in {"", "thumb"} :
          sidecar = NewSidecar(GenerateFilePath(dir, name, OutputExt(audioOnly)),
                               audioOnly, generateNFO, thumbnail)
    /\ stats = NoStats

NextSidecar == SidecarNFO \/ SidecarPoster

SpecSidecar == InitSidecar /\ [][NextSidecar]_vars

-----------------------------------------------------------------------------
(* q.mutex and q.emit in processItem (src/backend/playlist.go) *)

\* q.mutex.Lock() can return for w
CanLock(m) == m.writer = "none" /\ m.readers = {}

\* q.mutex.RLock() can return for w
CanRLock(m) == m.writer = "none"

\* w holds q.mutex, for writing or for reading
Holds(m, w) == m.writer = w \/ w \in m.readers

\* q.mutex.Unlock()
Unlock(m, w) == [m EXCEPT !.writer = "none"]

\* q.mutex.RUnlock()
RUnlock(m, w) == [m EXCEPT !.readers = @ \ {w}]

\* a step of w at lock level: the item list, the event, the lock, the next
\* position
LockStep(w, its, ev, m, next) ==
    /\ items' = its
    /\ emitted' = ev
    /\ mutex' = m
    /\ pc' = [pc EXCEPT ![w] = next]
    /\ loc' = [loc EXCEPT ![w] = IF next = "idle" THEN LocIdle ELSE loc[w]]
    /\ UNCHANGED <<nextId, retries, ctxDone, tok, tempDirs, panicked, fileIndex,
                   targetFile, persistVars, svcVars, history, sidecar, stats>>

\* processItem(id) is called: q.mutex.Lock()
LockClaim(w, id) ==
    /\ pc[w] = "idle"
    /\ CanLock(mutex)
    /\ loc' = [loc EXCEPT ![w] = [LocIdle EXCEPT !.id = id]]
    /\ mutex' = [mutex EXCEPT !.writer = w]
    /\ pc' = [pc EXCEPT ![w] = "lk_claim"]
    /\ emitted' = <<>>
    /\ UNCHANGED <<items, nextId, retries, ctxDone, tok, tempDirs, panicked, fileIndex,
                   targetFile, persistVars, svcVars, history, sidecar, stats>>

\* a claim that publishes the "updated" event of the start before it unlocks
LockClaimedEmitting(w) ==
    /\ pc[w] = "lk_claim"
    /\ IF Has(items, loc[w].id) /\ ~ClaimGuard(GetItem(items, loc[w].id))
       THEN LockStep(w, items, <<>>, Unlock(mutex, w), "idle")
       ELSE LockStep(w, updateItem(items, loc[w].id, ClaimUpdate(w)),
                     <<Ev("updated", loc[w].id)>>, Unlock(mutex, w), "lk_cfg")

\* under the lock: the item is not pending: Unlock, cancel(), return; else
\* the claim is written (if the item is there) and the lock released
LockClaimed(w) ==
    /\ pc[w] = "lk_claim"
    /\ IF Has(items, loc[w].id) /\ ~ClaimGuard(GetItem(items, loc[w].id))
       THEN LockStep(w, items, <<>>, Unlock(mutex, w), "idle")
       ELSE LockStep(w, updateItem(items, loc[w].id, ClaimUpdate(w)), <<>>,
                     Unlock(mutex, w), "lk_getitem")

\* item := q.GetItem(id), which takes and releases the read lock; nil: return
LockGetItem(w) ==
    /\ pc[w] = "lk_getitem"
    /\ CanRLock(mutex)
    /\ LockStep(w, items, <<>>, mutex, IF Has(items, loc[w].id) THEN "lk_emit" ELSE "idle")

\* q.emit(QueueEvent{Type: "updated"})
LockEmitStarted(w) ==
    /\ pc[w] = "lk_emit"
    /\ LockStep(w, items, <<Ev("updated", loc[w].id)>>, mutex, "lk_cfg")

\* q.mutex.RLock() for the config
LockConfig(w) ==
    /\ pc[w] = "lk_cfg"
    /\ CanRLock(mutex)
    /\ LockStep(w, items, <<>>, [mutex EXCEPT !.readers = @ \cup {w}], "lk_cfg_held")

\* config := q.config; q.mutex.RUnlock()
LockConfigRead(w) ==
    /\ pc[w] = "lk_cfg_held"
    /\ LockStep(w, items, <<>>, RUnlock(mutex, w), "lk_run")

\* the stages: they end in q.SetItemError, or in the q.updateItem(complete)
\* of a skip, or in that of the full pipeline; each takes and releases the
\* write lock inside the call
LockRun(w) ==
    /\ pc[w] = "lk_run"
    /\ CanLock(mutex)
    /\ \/ LockStep(w, SetItemError(items, loc[w].id), EvIf(items, loc[w].id, "error"),
                    mutex, "idle")
       \/ \E stage \in {"Skipped (already exists)", "Copied from existing"} :
            LockStep(w, updateItem(items, loc[w].id, CompleteUpdate(stage, TargetPath)),
                     <<>>, mutex, "lk_done")
       \/ LockStep(w, updateItem(items, loc[w].id, CompleteUpdate("Complete", TargetPath)),
                   <<>>, mutex, "lk_hist")

\* q.mutex.RLock() for the history store
LockHistory(w) ==
    /\ pc[w] = "lk_hist"
    /\ CanRLock(mutex)
    /\ LockStep(w, items, <<>>, [mutex EXCEPT !.readers = @ \cup {w}], "lk_hist_held")

\* history := q.history; q.mutex.RUnlock(); with a store, q.GetItem(id) next
LockHistoryRead(w) ==
    /\ pc[w] = "lk_hist_held"
    /\ LockStep(w, items, <<>>, RUnlock(mutex, w),
                IF history.nil THEN "lk_done" ELSE "lk_hist_add")

\* item = q.GetItem(id); history.AddFromQueueItem
LockHistoryAdd(w) ==
    /\ pc[w] = "lk_hist_add"
    /\ CanRLock(mutex)
    /\ history' = IF Has(items, loc[w].id)
                  THEN AddFromQueueItem(history, loc[w].id)
                  ELSE history
    /\ pc' = [pc EXCEPT ![w] = "lk_done"]
    /\ emitted' = <<>>
    /\ UNCHANGED <<items, loc, mutex, nextId, retries, ctxDone, tok, tempDirs, panicked,
                   fileIndex, targetFile, persistVars, svcVars, sidecar, stats>>

\* q.emit(QueueEvent{Type: "completed"}); return
LockEmitCompleted(w) ==
    /\ pc[w] = "lk_done"
    /\ LockStep(w, items, <<Ev("completed", loc[w].id)>>, mutex, "idle")

\* two pending items, two idle workers, the lock free, a history store
InitLock ==
    /\ items = <<NewItem(1, "T"), NewItem(2, "T")>>
    /\ ctxDone = FALSE
    /\ nextId = 3
    /\ retries = 0
    /\ pc = [w \in Workers |-> "idle"]
    /\ loc = [w \in Workers |-> LocIdle]
    /\ tok = [w \in Workers |-> FALSE]
    /\ tempDirs = {}
    /\ emitted = <<>>
    /\ panicked = FALSE
    /\ fileIndex = NoIndex
    /\ targetFile = "none"
    /\ PersistIdle
    /\ SvcIdle
    /\ LockIdle
    /\ history = HistoryOf({})
    /\ sidecar = NoSidecar
    /\ stats = NoStats

NextLock ==
    \E w \in Workers :
        \/ \E id \in PairIds : LockClaim(w, id)
        \/ LockClaimed(w)
        \/ LockGetItem(w)
        \/ LockEmitStarted(w)
        \/ LockConfig(w)
        \/ LockConfigRead(w)
        \/ LockRun(w)
        \/ LockHistory(w)
        \/ LockHistoryRead(w)
        \/ LockHistoryAdd(w)
        \/ LockEmitCompleted(w)

SpecLock == InitLock /\ [][NextLock]_vars

\* ---------------------------------------------------------------------------
\* Queue statistics (queue_persistence.go 141-176)
\* ---------------------------------------------------------------------------

\* the number of items whose status is in S
CountIn(its, S) == Cardinality({i \in DOMAIN its : its[i].status \in S})

\* a GetStats whose Active case leaves out organizing
GetStatsNoOrganizing(its) ==
    [called    |-> TRUE,
     total     |-> Len(its),
     pending   |-> CountIn(its, {StatusPending}),
     active    |-> CountIn(its, {StatusFetchingInfo, StatusDownloadingVideo,
                                 StatusDownloadingAudio, StatusMuxing}),
     completed |-> CountIn(its, {StatusComplete}),
     failed    |-> CountIn(its, {StatusError}),
     cancelled |-> CountIn(its, {StatusCancelled})]

\* GetStats: Total: len(q.items), and one counter per case of the switch
GetStats(its) ==
    [called    |-> TRUE,
     total     |-> Len(its),
     pending   |-> CountIn(its, {StatusPending}),
     active    |-> CountIn(its, {StatusFetchingInfo, StatusDownloadingVideo,
                                 StatusDownloadingAudio, StatusMuxing,
                                 StatusOrganizing}),
     completed |-> CountIn(its, {StatusComplete}),
     failed    |-> CountIn(its, {StatusError}),
     cancelled |-> CountIn(its, {StatusCancelled})]

\* the queues GetStats is called on: up to MaxStatItems items, each in any
\* status
StatQueues ==
    UNION {{[i \in 1..n |-> [NewItem(i, "T") EXCEPT !.status = st[i]]] :
                st \in [1..n -> Statuses]} : n \in 0..MaxStatItems}

\* q.GetStats(): under the read lock, returns the stats
GetStatsCall ==
    /\ ~stats.called
    /\ CanRLock(mutex)
    /\ stats' = GetStats(items)
    /\ UNCHANGED <<items, ctxDone, pipeVars, persistVars, svcVars, lockVars, history, sidecar>>

InitStats ==
    /\ items \in StatQueues
    /\ ctxDone = FALSE
    /\ PipeIdle
    /\ fileIndex = NoIndex
    /\ targetFile = "none"
    /\ PersistIdle
    /\ SvcIdle
    /\ LockIdle
    /\ history = NoHistory
    /\ sidecar = NoSidecar
    /\ stats = NoStats

NextStats == GetStatsCall

SpecStats == InitStats /\ [][NextStats]_vars

-----------------------------------------------------------------------------
(* Properties of the pipeline *)

Status(its, id) == GetItem(its, id).status

\* the fields of an item the runner writes
WorkerFields(it) ==
    <<it.status, it.progress, it.stage, it.audioOnly, it.videoPath, it.audioPath,
      it.audioSource, it.outputPath, it.completedAt>>

\* worker w is between its claim of item id and its return statement
Running(w, id) == loc[w].id = id /\ pc[w] \notin {"idle", "ret", "panic"}

\* C1: once Cancel(id) has left the item cancelled, no later step other than
\* Remove takes its status out of {cancelled, complete, error}; in particular
\* no UpdateStatus of the still running processItem puts it back in flight.
C1_CancelledStaysTerminal ==
    [][\A id \in Ids :
          (Has(items, id) /\ Status(items, id) = StatusCancelled /\ Has(items', id))
             => Status(items', id) \in Terminal]_vars

\* C2: once an item is terminal, a step that changes any of its status,
\* progress, stage, audio_only, video_path, audio_path, audio_source,
\* output_path, completed_at is a RetryWithOverride (or Remove deletes it).
C2_TerminalItemFrozen ==
    [][\A id \in Ids :
          (/\ Has(items, id) /\ Has(items', id)
           /\ Status(items, id) \in Terminal
           /\ WorkerFields(GetItem(items', id)) # WorkerFields(GetItem(items, id)))
             => \E t \in Overrides : RetryWithOverride(id, t)]_vars

\* C3: a runner whose item token has been tripped emits no `completed` and no
\* `error` event for the item afterwards, does not set status = complete, and
\* leaves a cancelled item cancelled.
C3_CancelledRunnerSilent ==
    [][\A w \in Workers :
          (tok[w] /\ pc[w] # "idle" /\ pc'[w] # pc[w]) =>
             /\ \A k \in DOMAIN emitted' :
                   ~(emitted'[k].id = loc[w].id /\ emitted'[k].type \in {"completed", "error"})
             /\ (Has(items, loc[w].id) /\ Has(items', loc[w].id)) =>
                   /\ Status(items', loc[w].id) = StatusComplete
                         => Status(items, loc[w].id) = StatusComplete
                   /\ Status(items, loc[w].id) = StatusCancelled
                         => Status(items', loc[w].id) = StatusCancelled]_vars

\* C4: the check status = pending and the write status = fetching_info are one
\* critical section, so at most one worker at a time is between its claim of
\* an id and its return.
C4_OneRunnerPerItem ==
    \A id \in Ids : Cardinality({w \in Workers : Running(w, id)}) <= 1

\* two workers are inside processItem for the same id, one of them running
\* the pipeline on the item the other one has finished with
C4_Witness ==
    \E w1, w2 \in Workers :
        /\ w1 # w2
        /\ Running(w1, 1) /\ pc[w1] = "dl_run"
        /\ pc[w2] = "ret" /\ loc[w2].id = 1

\* C5: every temp directory that exists belongs to a run that created it and
\* has not returned yet: a run that returns, on whichever exit path, has
\* removed its directory.
C5_TempDirRemoved ==
    \A d \in tempDirs :
        \E w \in Workers : pc[w] # "idle" /\ loc[w].id = d /\ loc[w].hasTemp

\* a run that created its directory was cancelled, has returned, and the
\* directory is gone
C5_Witness ==
    /\ \A w \in Workers : pc[w] = "idle"
    /\ Has(items, 1)
    /\ GetItem(items, 1).status = StatusCancelled
    /\ GetItem(items, 1).progress >= 10
    /\ tempDirs = {}

-----------------------------------------------------------------------------
(* Properties of the persistence *)

Resumed(it) ==
    /\ it.status = StatusPending
    /\ it.progress = 0
    /\ it.stage = "Waiting... (resumed)"

LoadStep == mainPc = "boot" /\ mainPc' = "loaded"

SamePersisted(a, b) == \A f \in PersistFields : a[f] = b[f]

\* C6: after LoadQueue has returned successfully (a file was loaded, or
\* there was none), no item of the queue has an in-flight status, whatever
\* the statuses in the file were
C6_NoInFlightAfterLoad ==
    mainPc \in {"loaded", "fresh"} =>
        \A i \in DOMAIN items : items[i].status \notin InFlight

\* a file with an item caught while organizing has been loaded
C6_Witness ==
    /\ mainPc = "loaded"
    /\ autoPc = "off"
    /\ disk.kind = "full"
    /\ Len(disk.items) >= 1
    /\ Len(items) >= 1
    /\ disk.items[1].status = StatusOrganizing
    /\ items[1].status = StatusPending

\* C7 as stated: LoadQueue turns every item whose persisted status was not
\* terminal (pending included) into status pending, progress 0 and the
\* resumed stage
C7_NonTerminalResumed ==
    [][LoadStep =>
        \A i \in DOMAIN disk.items :
            disk.items[i].status \notin Terminal => Resumed(items'[i])]_vars

\* C7: LoadQueue turns every item whose persisted status was in-flight into
\* status pending, progress 0 and the stage "Waiting... (resumed)"; every
\* other item, a pending one included, is loaded with the status, progress
\* and stage of the file
C7_InFlightResumed ==
    [][LoadStep =>
        \A i \in DOMAIN disk.items :
            IF disk.items[i].status \in InFlight
            THEN Resumed(items'[i])
            ELSE SamePersisted(items'[i], disk.items[i])]_vars

\* a file with an item caught while downloading its video has been loaded
C7_Witness ==
    /\ mainPc = "loaded"
    /\ autoPc = "off"
    /\ disk.kind = "full"
    /\ Len(disk.items) >= 1
    /\ Len(items) >= 1
    /\ disk.items[1].status = StatusDownloadingVideo
    /\ disk.items[1].progress = 40
    /\ Resumed(items[1])

C9_QueueFileComplete == disk.kind \in {"absent", "full"}

\* C10 as stated: AutoSave begins at most one SaveQueue after the queue
\* context was cancelled
C10_ExactlyOneSaveAfterCancel == lateSaves <= 1

\* C10: while the context is live a tick that was delivered leads to a save,
\* and the select statement proceeds only by saving; once the context is
\* cancelled AutoSave eventually stops, having done one final save from its
\* shutdown branch (tick saves may still come before that one); after it has
\* stopped it starts no save and the file no longer changes
C10_AutoSaveFinalSave ==
    /\ [][(AutoSaveSelect /\ ~ctxDone) => (autoPc' = "tick" /\ save'.pc = "lock")]_vars
    /\ (tickReady /\ autoPc = "select" /\ ~ctxDone) ~> (autoPc = "tick" \/ ctxDone)
    /\ (ctxDone /\ mainPc # "boot") ~> (autoPc = "stopped")
    /\ [](autoPc = "stopped" => (finalSaves = 1 /\ save = NoSave))
    /\ [](finalSaves <= 1)
    /\ [][autoPc = "stopped" => (autoPc' = "stopped" /\ save' = save /\ disk' = disk)]_vars

\* AutoSave has stopped after a shutdown, its final save on disk
C10_Witness ==
    /\ autoPc = "stopped"
    /\ ctxDone
    /\ finalSaves = 1
    /\ disk.kind = "full"
    /\ disk.items = MarshalItems(items)
    /\ Len(items) >= 1
    /\ items[1].status = StatusCancelled

-----------------------------------------------------------------------------
(* Properties of one pipeline run *)

\* worker w takes a step of its run
RunnerStep(w) == pc'[w] # pc[w]

\* the item of w's run is in the queue before and after the step
ItemStays(w) == Has(items, loc[w].id) /\ Has(items', loc[w].id)

\* C11 as stated: while an item is in flight every write of its progress is
\* at least the value it replaces, and progress stays within 0..100
C11_ProgressMonotonic ==
    [][\A id \in Ids :
         (Has(items, id) /\ Has(items', id) /\ Status(items, id) \in InFlight) =>
             /\ GetItem(items', id).progress >= GetItem(items, id).progress
             /\ GetItem(items', id).progress \in 0..100]_vars

\* C12: an item with status complete has a non-empty output path and
\* progress 100
C12_CompleteHasOutput ==
    \A i \in DOMAIN items :
        items[i].status = StatusComplete =>
            (items[i].outputPath # "" /\ items[i].progress = 100)

\* the full pipeline has completed an item whose audio was extracted
C12_Witness ==
    /\ Has(items, 1)
    /\ GetItem(items, 1).status = StatusComplete
    /\ GetItem(items, 1).stage = "Complete"
    /\ GetItem(items, 1).audioSource = "extracted"
    /\ GetItem(items, 1).outputPath = TargetPath

\* C13 as stated: whenever an item is complete the file index has an entry
\* under the item's output path
C13_CompleteIsIndexed ==
    \A i \in DOMAIN items :
        items[i].status = StatusComplete =>
            (~fileIndex.nil /\ items[i].outputPath \in fileIndex.paths)

\* C13: when the queue has a file index, an item that is complete has an
\* entry under its output path, and on the full pipeline path the entry is
\* there before the status becomes complete
C13_CompleteIsIndexedIfIndex ==
    ~fileIndex.nil =>
        /\ \A i \in DOMAIN items :
               items[i].status = StatusComplete => items[i].outputPath \in fileIndex.paths
        /\ \A w \in Workers : pc[w] = "fin_complete" => loc[w].out \in fileIndex.paths

\* a file found elsewhere was copied to the target path, indexed, and the
\* item completed
C13_Witness ==
    /\ Has(items, 1)
    /\ GetItem(items, 1).status = StatusComplete
    /\ GetItem(items, 1).stage = "Copied from existing"
    /\ fileIndex = IndexOf({"existing", TargetPath})
    /\ pc["w1"] = "ret"

\* C14: a source whose URL is empty is never tried; when a download has
\* succeeded the recorded audio source is the source of the loop index, every
\* earlier source in priority order either had no URL or was tried and
\* failed, no later source was tried, and the loop is left
C14_FirstAvailableSource ==
    /\ [](\A w \in Workers : loc[w].tried \subseteq loc[w].links)
    /\ [][\A w \in Workers :
            (pc[w] = "au_ok" /\ RunnerStep(w) /\ ItemStays(w)) =>
                LET k == loc[w].src IN
                /\ GetItem(items', loc[w].id).audioSource = AudioSourcePriority[k]
                /\ AudioSourcePriority[k] \in loc[w].links
                /\ \A j \in 1..(k - 1) :
                       AudioSourcePriority[j] \in loc[w].links
                           => AudioSourcePriority[j] \in loc[w].tried
                /\ \A j \in (k + 1)..Len(AudioSourcePriority) :
                       AudioSourcePriority[j] \notin loc[w].tried
                /\ pc'[w] = "mux_chk"
                /\ loc'[w].audioDownloaded]_vars

\* the first source had no URL and the download from the second succeeded
C14_Witness ==
    /\ pc["w1"] = "au_ok"
    /\ loc["w1"].src = 2
    /\ loc["w1"].links = {AudioSourcePriority[2]}
    /\ loc["w1"].tried = {AudioSourcePriority[2]}

\* C15 as stated: a run whose video download succeeded and whose catalog and
\* search downloads all failed completes the item with audio source
\* "extracted" and audio_only false
C15_ExtractedFallback ==
    [][\A w \in Workers :
         (pc[w] = "fin_complete" /\ RunnerStep(w) /\ ItemStays(w)
            /\ loc[w].videoPath # "" /\ ~loc[w].audioDownloaded) =>
             /\ GetItem(items', loc[w].id).status = StatusComplete
             /\ GetItem(items', loc[w].id).audioSource = "extracted"
             /\ GetItem(items', loc[w].id).audioOnly = FALSE]_vars

\* C16: when the video download failed and no audio was downloaded, the run
\* ends there: status error with a non-empty error, audio_only true, no
\* output path, and no mux
C16_NoVideoNoAudioFails ==
    [][\A w \in Workers :
         (pc[w] = "au_fb" /\ RunnerStep(w) /\ ItemStays(w) /\ loc[w].audioOnly) =>
             /\ GetItem(items', loc[w].id).status = StatusError
             /\ GetItem(items', loc[w].id).error # ""
             /\ GetItem(items', loc[w].id).audioOnly = TRUE
             /\ GetItem(items', loc[w].id).outputPath = ""
             /\ pc'[w] = "ret"]_vars

\* a first run has ended in error after its video download and all its audio
\* downloads failed
C16_Witness ==
    /\ Has(items, 1)
    /\ GetItem(items, 1).status = StatusError
    /\ GetItem(items, 1).audioOnly
    /\ GetItem(items, 1).error # ""
    /\ pc["w1"] = "ret"
    /\ loc["w1"].audioOnly
    /\ ~loc["w1"].audioDownloaded
    /\ retries = 0

\* C17 as stated: when a run completes an item, the item's audio_only is
\* true exactly if the video download of that run failed
C17_AudioOnlyIffVideoFailed ==
    [][\A w \in Workers :
         (RunnerStep(w) /\ ItemStays(w)
            /\ GetItem(items, loc[w].id).status # StatusComplete
            /\ GetItem(items', loc[w].id).status = StatusComplete) =>
             GetItem(items', loc[w].id).audioOnly = loc[w].audioOnly]_vars

\* the positions of the skip-detection block
SkipPcs == {"skip_found", "skip_get", "skip_same", "skip_copy", "skip_copy_run"}

\* C18: a run inside the skip-detection block has found an index entry and
\* has called no video download, resolver or audio service; from there the
\* item is completed with stage "Skipped (already exists)" (same path) or
\* "Copied from existing" (copy succeeded), and after a failed copy the run
\* goes on with the video download stage
C18_SkipWithoutDownload ==
    /\ [](\A w \in Workers :
            pc[w] \in SkipPcs =>
                (~loc[w].called /\ ~fileIndex.nil /\ loc[w].existing \in fileIndex.paths))
    /\ [][\A w \in Workers :
            (pc[w] = "skip_same" /\ RunnerStep(w) /\ ItemStays(w)) =>
                /\ GetItem(items', loc[w].id).status = StatusComplete
                /\ GetItem(items', loc[w].id).stage = "Skipped (already exists)"
                /\ pc'[w] = "ret"]_vars
    /\ [][\A w \in Workers :
            (pc[w] = "skip_copy_run" /\ RunnerStep(w) /\ ItemStays(w)) =>
                \/ /\ GetItem(items', loc[w].id).status = StatusComplete
                   /\ GetItem(items', loc[w].id).stage = "Copied from existing"
                   /\ pc'[w] = "ret"
                \/ /\ GetItem(items', loc[w].id) = GetItem(items, loc[w].id)
                   /\ pc'[w] = "dl_chk"]_vars

\* the item was completed from a file already at its target path, and the
\* run has made no download call
C18_Witness ==
    /\ Has(items, 1)
    /\ GetItem(items, 1).status = StatusComplete
    /\ GetItem(items, 1).stage = "Skipped (already exists)"
    /\ GetItem(items, 1).videoPath = ""
    /\ GetItem(items, 1).audioSource = ""
    /\ pc["w1"] = "ret"
    /\ ~loc["w1"].called

-----------------------------------------------------------------------------
(* Properties of RetryWithOverride *)

\* a retry was accepted in this step
RetryStep == retries' = retries + 1

\* C19: RetryWithOverride on an item in status error, whatever the override,
\* leaves the item with status pending, an empty error, and nil match
\* candidates and match diagnostics
C19_RetryResets ==
    [][\A id \in Ids :
         (RetryStep /\ Has(items, id) /\ Status(items, id) = StatusError) =>
             /\ Has(items', id)
             /\ GetItem(items', id).status = StatusPending
             /\ GetItem(items', id).error = ""
             /\ GetItem(items', id).matchCandidates = "nil"
             /\ GetItem(items', id).matchDiagnostics = "nil"]_vars

\* a failed item was retried and is pending again
C19_Witness ==
    /\ retries = 1
    /\ Has(items, 1)
    /\ GetItem(items, 1).status = StatusPending
    /\ GetItem(items, 1).error = ""
    /\ GetItem(items, 1).spotifyURL = "S"
    /\ GetItem(items, 1).matchCandidates = "nil"

\* C20: RetryWithOverride with a music URL sets the item's catalog URL to
\* exactly that URL; the video URL is never changed; an artist or title
\* override replaces the item's artist or title, and without one they stay
C20_RetryOverrides ==
    [][\A id \in Ids, req \in RetryRequests :
         (RetryStep /\ RetryWithOverride(id, req)) =>
             /\ req.musicURL # "" => GetItem(items', id).spotifyURL = req.musicURL
             /\ req.musicURL = "" => GetItem(items', id).spotifyURL = GetItem(items, id).spotifyURL
             /\ GetItem(items', id).videoURL = GetItem(items, id).videoURL
             /\ GetItem(items', id).artist =
                    (IF req.artist # "" THEN req.artist ELSE GetItem(items, id).artist)
             /\ GetItem(items', id).title =
                    (IF req.title # "" THEN req.title ELSE GetItem(items, id).title)]_vars

\* a failed item was retried with a music URL, an artist and a title
C20_Witness ==
    /\ retries = 1
    /\ Has(items, 1)
    /\ GetItem(items, 1).spotifyURL = "M"
    /\ GetItem(items, 1).videoURL = "V"
    /\ GetItem(items, 1).artist = "A2"
    /\ GetItem(items, 1).title = "T2"

\* the fields of an item that a retry without overrides may change
RetryFields == {"status", "progress", "stage", "error", "matchCandidates", "matchDiagnostics"}

\* C21: RetryWithOverride without overrides on an item in status error
\* changes only status, progress, stage, error, match candidates and match
\* diagnostics; every other field of the item is equal before and after
C21_RetryFrame ==
    [][\A id \in Ids :
         (RetryStep /\ RetryWithOverride(id, RetryRequest("", "", ""))) =>
             /\ Has(items', id)
             /\ \A f \in (DOMAIN GetItem(items, id)) \ RetryFields :
                    GetItem(items', id)[f] = GetItem(items, id)[f]]_vars

\* a failed item with artist, title and both URLs was retried and has kept
\* them
C21_Witness ==
    /\ retries = 1
    /\ Has(items, 1)
    /\ GetItem(items, 1).status = StatusPending
    /\ GetItem(items, 1).artist = "A"
    /\ GetItem(items, 1).title = "T"
    /\ GetItem(items, 1).videoURL = "V"
    /\ GetItem(items, 1).spotifyURL = "S"

\* C22: RetryWithOverride returns an error and leaves the item list as it
\* is when the id is not in the queue or the item is not in status error; it
\* is accepted only for an item in status error
C22_RetryRejected ==
    /\ [](\A id \in Ids, req \in RetryRequests :
            LET r == RetryCall(items, id, req) IN
            /\ ~Has(items, id) => (r.err /\ r.items = items)
            /\ ~r.err => (Has(items, id) /\ Status(items, id) = StatusError))
    /\ [][\A id \in Ids, req \in RetryRequests :
            (RetryWithOverride(id, req)
               /\ ~(Has(items, id) /\ Status(items, id) = StatusError)) =>
                (items' = items /\ retries' = retries)]_vars

\* a retry for an id that is no longer in the queue was rejected
C22_Witness ==
    /\ items = <<>>
    /\ nextId = 2
    /\ emitted = <<>>
    /\ retries = 0

-----------------------------------------------------------------------------
(* Properties of the runner under Cancel and Remove *)

\* C24 as stated: no interleaving of a run with Cancel and Remove of its
\* item makes processItem panic
C24_NeverPanics == ~panicked

\* the positions of a run between a successful mux and the completion
PostMux == {"ly_run", "org_chk", "org_start", "fin_complete"}

\* the item of w's run is complete
RunComplete(w) ==
    Has(items, loc[w].id) /\ GetItem(items, loc[w].id).status = StatusComplete

\* C25: after a successful mux no step of the run sets status error, and the
\* run returns early only at a cancellation check that sees the token
\* tripped; a run that keeps running from there completes the item unless the
\* item is cancelled or the queue shut down, whatever the lyrics, NFO and
\* poster calls return
C25_EnrichmentNeverFatal ==
    /\ [][\A w \in Workers :
            (pc[w] \in PostMux /\ RunnerStep(w) /\ ItemStays(w)) =>
                /\ GetItem(items', loc[w].id).status = StatusError
                       => GetItem(items, loc[w].id).status = StatusError
                /\ pc'[w] = "ret" => Done(w)]_vars
    /\ (pc["w1"] \in PostMux) ~> (RunComplete("w1") \/ Done("w1") \/ panicked)

\* the lyrics stage has run and the item was completed
C25_Witness ==
    /\ RunComplete("w1")
    /\ GetItem(items, 1).stage = "Complete"
    /\ pc["w1"] = "fin_emit"
    /\ ~Done("w1")

\* C27 as stated: a run of an item whose video URL does not parse calls no
\* video download, resolver or audio download and does not complete the
\* item, whether the title was known at the start of the run or not
C27_BadURLNoDownload ==
    \A w \in Workers :
        (pc[w] # "idle" /\ loc[w].url # "" /\ ParseYouTubeURL(loc[w].url).err) =>
            /\ ~loc[w].called
            /\ ~RunComplete(w)

\* C28 as stated: a file that is at the generated output path before a run
\* is never overwritten, neither by the mux nor by the copy of skip detection
C28_NoOverwrite ==
    [][targetFile = "other" => targetFile' = "other"]_vars

-----------------------------------------------------------------------------
(* Properties of LucidaService *)

\* an answer after which the next server has to be tried
FailsOver(kind) == kind \in {"5xx", "neterr"}

\* the servers that do not fail at network level or with a 5xx status
Answering(eps) == {i \in DOMAIN eps : ~FailsOver(eps[i])}

\* the first of them
FirstAnswering(eps) == CHOOSE i \in Answering(eps) : \A j \in Answering(eps) : i <= j

\* C23 as stated: a service set up against several servers asks them in
\* order up to the first that neither fails at network level nor answers
\* 5xx; the result is the result of that server; when every server fails,
\* IsAvailable is false and GetTrackInfo and Download return the error "all
\* lucida endpoints failed"
C23_EndpointFallback ==
    (lucida.op \in {"IsAvailable", "GetTrackInfo", "Download"}
       /\ Len(lucida.endpoints) >= 2) =>
        LET eps == lucida.endpoints IN
        IF Answering(eps) = {}
        THEN /\ lucida.requests = [i \in DOMAIN eps |-> i]
             /\ lucida.result = IF lucida.op = "IsAvailable" THEN "false"
                                ELSE "all lucida endpoints failed"
        ELSE /\ lucida.requests = [i \in 1..FirstAnswering(eps) |-> i]
             /\ lucida.op = "IsAvailable" => lucida.result = "true"
             /\ lucida.op = "GetTrackInfo" =>
                    lucida.result = (IF fetchTrackData(eps[FirstAnswering(eps)]) = ""
                                     THEN "info"
                                     ELSE fetchTrackData(eps[FirstAnswering(eps)]))

-----------------------------------------------------------------------------
(* Properties of the audio cascade *)

\* the steps of a run that start a download, search-download or extraction
\* call whatever they draw
CallPcs == {"au_lucida", "au_orpheus", "au_search_dl", "au_extract"}

\* C26 as stated: once the token of the item is tripped the runner starts no
\* further download, search-download or extraction call, the next service of
\* the same source and the search fallback included: no such call is started
\* by a run that already started one with the token tripped
C26_NoCallAfterCancel ==
    [][\A w \in Workers :
         (pc[w] \in CallPcs /\ RunnerStep(w)) => ~loc[w].late]_vars

\* the place of a service in the cascade of one source
ServiceRank(svc) ==
    CASE svc = "tidal-hifi" -> 1
      [] svc = "lucida"     -> 2
      [] svc = "orpheus"    -> 3

\* within one source the services are asked in the order tidal-hifi (tidal
\* source only), lucida, orpheus, each only after all earlier ones returned
\* no result
CascadeOrdered(w) ==
    LET sv == loc[w].svcs IN
    /\ \A i, j \in DOMAIN sv :
          i < j => ServiceRank(sv[i].svc) < ServiceRank(sv[j].svc) /\ ~sv[i].res
    /\ \A i \in DOMAIN sv :
          sv[i].svc = "tidal-hifi" => AudioSourcePriority[loc[w].src] = "tidal"

\* C29 as stated: the services of one source are asked in the fixed order,
\* each only when all earlier ones returned no result, and a service whose
\* IsAvailable is false is never asked to download
C29_CascadeOrder ==
    \A w \in Workers :
        /\ CascadeOrdered(w)
        /\ \A i \in DOMAIN loc[w].svcs : loc[w].svcs[i].avail

\* C30: DownloadBySearch is called only by a run in which no download by
\* catalog URL succeeded, with artist and title both non-empty and with
\* tidal-hifi available; when it succeeds "tidal-search" is recorded as the
\* audio source of the item and the extraction fallback is not run; no
\* other step records that source
C30_SearchGuarded ==
    [][/\ \A w \in Workers :
            (pc[w] = "au_search_dl" /\ RunnerStep(w)) =>
                /\ ~loc[w].audioDownloaded
                /\ loc[w].info = <<"A", "T", "available">>
                /\ loc'[w].audioDownloaded =>
                      /\ pc'[w] = "mux_chk"
                      /\ Has(items', loc[w].id) =>
                            GetItem(items', loc[w].id).audioSource = "tidal-search"
       /\ \A i \in DOMAIN items :
            (/\ Has(items', items[i].id)
             /\ GetItem(items', items[i].id).audioSource = "tidal-search"
             /\ items[i].audioSource # "tidal-search") =>
                \E w \in Workers : pc[w] = "au_search_dl" /\ loc[w].id = items[i].id]_vars

\* a search download has succeeded and its source is on the item
C30_Witness ==
    \E w \in Workers :
        /\ pc[w] = "mux_chk"
        /\ loc[w].audioDownloaded
        /\ Has(items, loc[w].id)
        /\ GetItem(items, loc[w].id).audioSource = "tidal-search"

-----------------------------------------------------------------------------
(* Properties of the give-up *)

\* C31 as stated: when the cascade gives up (no download by catalog URL, no
\* search download, no extraction) the item in status error carries match
\* diagnostics with the sources tried in that run
C31_GiveUpHasDiagnostics ==
    [][\A w \in Workers :
         (/\ pc[w] \in {"au_fb", "au_extract"}
          /\ RunnerStep(w)
          /\ ItemStays(w)
          /\ GetItem(items', loc[w].id).status = StatusError
          /\ GetItem(items, loc[w].id).status # StatusError) =>
             GetItem(items', loc[w].id).matchDiagnostics # "nil"]_vars

-----------------------------------------------------------------------------
(* Properties of LucidaService.Download *)

\* the entries of a format list with the given name, case ignored, that
\* carry a download URL
Listed(formats, name) ==
    {i \in DOMAIN formats : ToLower(formats[i].format) = name /\ formats[i].url # ""}

\* the first of a set of indices
First(S) == CHOOSE i \in S : \A j \in S : i <= j

\* the file lies directly inside the directory
Inside(file, dir) ==
    /\ Len(file) = Len(dir) + 1
    /\ SubSeq(file, 1, Len(dir)) = dir
    /\ file[Len(file)] \notin {".", ".."}

\* Download has returned with a file, or because it selected nothing
Selected ==
    lucida.op = "returned" /\ lucida.result \in {"ok", "format not available"}

\* C32 as stated, an entry counting as listed when it carries a download
\* URL: Download selects the first listed format equal to the format asked
\* for, case ignored; asked for flac with no flac listed it selects wav,
\* then mp3; with nothing to select it returns an error and writes no file;
\* Format is the selected format, FilePath is inside dir
C32_SelectsFirstListed ==
    Selected =>
        LET fs == lucida.formats
            f == ToLower(lucida.format)
            want == IF Listed(fs, f) # {} THEN First(Listed(fs, f))
                    ELSE IF f = "flac" /\ Listed(fs, "wav") # {} THEN First(Listed(fs, "wav"))
                    ELSE IF f = "flac" /\ Listed(fs, "mp3") # {} THEN First(Listed(fs, "mp3"))
                    ELSE 0
        IN IF want = 0
           THEN lucida.result = "format not available" /\ lucida.file = <<>>
           ELSE /\ lucida.result = "ok"
                /\ lucida.picked = want
                /\ lucida.resFormat = fs[want].format
                /\ Inside(lucida.file, lucida.dir)

-----------------------------------------------------------------------------
(* Properties of two runs side by side *)

\* the positions at which a run does nothing but look at itemCtx.Done(), or
\* looks at it first
CheckPcs == {"skip_chk", "dl_chk", "au_chk", "au_src", "mux_chk", "org_chk"}

\* C33: a token is tripped only by the cancellation of the item its run is
\* for, which leaves every other item as it was; and a runner at a
\* cancellation check returns if and only if its own token or the parent
\* context has been tripped, so that a cancelled item is not observed by the
\* run of another item and a shutdown is observed by every run at its next
\* check
C33_TokenScope ==
    /\ [][\A w \in Workers :
            (~tok[w] /\ tok'[w]) =>
                /\ pc[w] # "idle"
                /\ Has(items, loc[w].id)
                /\ Status(items, loc[w].id) # StatusCancelled
                /\ Status(items', loc[w].id) = StatusCancelled
                /\ \A v \in Workers \ {w} : tok'[v] = tok[v]
                /\ \A id \in PairIds \ {loc[w].id} :
                       GetItem(items', id) = GetItem(items, id)]_vars
    /\ [][\A w \in Workers :
            (pc[w] \in CheckPcs /\ RunnerStep(w)) =>
                (pc'[w] = "ret" <=> (tok[w] \/ ctxDone))]_vars

\* the first item was cancelled and its run has returned at the check, while
\* the run of the second item has passed its checks with its token untouched
C33_Witness ==
    /\ tok["w1"]
    /\ pc["w1"] = "ret"
    /\ loc["w1"].id = 1
    /\ GetItem(items, 1).status = StatusCancelled
    /\ loc["w2"].id = 2
    /\ pc["w2"] = "au_start"
    /\ ~tok["w2"]
    /\ ~ctxDone

-----------------------------------------------------------------------------
(* Properties of the lock *)

\* C34: no step of processItem that publishes an event is taken by a worker
\* holding q.mutex: every q.emit comes after the Unlock or RUnlock of the
\* section before it
C34_EmitOutsideLock ==
    [][\A w \in Workers :
         (pc'[w] # pc[w] /\ emitted' # <<>>) => ~Holds(mutex, w)]_vars

\* a worker publishes "completed" with the lock free while the other worker
\* holds it for the claim of the second item
C34_Witness ==
    /\ pc["w1"] = "idle"
    /\ emitted = <<Ev("completed", 1)>>
    /\ GetItem(items, 1).status = StatusComplete
    /\ mutex.writer = "w2"
    /\ pc["w2"] = "lk_claim"

\* ---------------------------------------------------------------------------
\* Properties of the history record
\* ---------------------------------------------------------------------------

Published(evs, type, id) == \E i \in DOMAIN evs : evs[i] = Ev(type, id)

\* C35: with a history store configured, every step that publishes the
\* `completed` event of an item -- at the end of the full pipeline, of a
\* "Skipped (already exists)" or of a "Copied from existing" -- leaves a
\* history record of that item in the store.
C35_CompletedHasHistory ==
    [][\A id \in Ids :
         (Published(emitted', "completed", id) /\ ~history'.nil)
            => id \in history'.ids]_vars

\* ---------------------------------------------------------------------------
\* Properties of the end of a run
\* ---------------------------------------------------------------------------

\* the step on which processItem reaches its return
Returns(w) == pc[w] \notin {"idle", "ret"} /\ pc'[w] = "ret"

\* C36: every run of processItem reaches its return (or the process is gone),
\* and a run that returns with neither its own token nor the parent tripped
\* leaves its item, if the item is still queued, in complete or error.
C36_RunEnds ==
    /\ [][\A w \in Workers :
            (Returns(w) /\ ~Done(w) /\ Has(items', loc[w].id)) =>
                GetItem(items', loc[w].id).status \in {StatusComplete, StatusError}]_vars
    /\ (pc["w1"] # "idle") ~> (pc["w1"] = "idle" \/ panicked)

C36_Witness ==
    /\ pc["w1"] = "ret"
    /\ ~Done("w1")
    /\ Has(items, loc["w1"].id)
    /\ GetItem(items, loc["w1"].id).status = StatusError
    /\ loc["w1"].hasTemp

\* ---------------------------------------------------------------------------
\* Properties of two muxes for one target path
\* ---------------------------------------------------------------------------

\* the item was completed by a mux of its own run, not by a skip
Muxed(it) == it.status = StatusComplete /\ it.stage = "Complete"

\* C37: two items whose generated target paths are equal, processed by
\* different workers at the same time, never end up complete with the same
\* output path when both outputs were produced by a mux.
C37_DistinctOutputs ==
    \A i, j \in DOMAIN items :
        (i # j /\ Muxed(items[i]) /\ Muxed(items[j]))
            => items[i].outputPath # items[j].outputPath

\* ---------------------------------------------------------------------------
\* Properties of a call for an item that is not pending
\* ---------------------------------------------------------------------------

\* C38: processItem called for a queued item whose status is not pending
\* returns at once: no field of any item changes, no temp directory is
\* created, no collaborator is called, the file index and the target are
\* untouched, and no event is published.
C38_NotPendingFrame ==
    [][\A w \in Workers, id \in PairIds :
         (/\ Has(items, id)
          /\ GetItem(items, id).status # StatusPending
          /\ Claim(w, id))
            => /\ items' = items
               /\ tempDirs' = tempDirs
               /\ emitted' = <<>>
               /\ pc'[w] = "idle"
               /\ loc' = loc
               /\ tok' = tok
               /\ fileIndex' = fileIndex
               /\ targetFile' = targetFile
               /\ lucida' = lucida]_vars

\* the second item cancelled before any run, a call for it that has returned,
\* and the first item still in flight on the other worker
C38_Witness ==
    /\ GetItem(items, 2).status = StatusCancelled
    /\ ~GetItem(items, 2).started
    /\ pc["w2"] = "idle"
    /\ pc["w1"] = "mux_chk"
    /\ GetItem(items, 1).status = StatusDownloadingAudio
    /\ emitted = <<>>
    /\ tempDirs = {1}
    /\ ~ctxDone

\* ---------------------------------------------------------------------------
\* Properties of the sidecar files
\* ---------------------------------------------------------------------------

\* the path with the extension ext taken off its end
TrimExt(path, ext) == SubSeq(path, 1, Len(path) - Len(ext))

\* C39: every sidecar file written is the NFO or the poster named after the
\* produced file: its path with the extension (.mkv, or .flac for an
\* audio-only output) replaced by ".nfo" or by "-poster.jpg".
C39_SidecarNames ==
    sidecar.op # "none" =>
        LET base == TrimExt(sidecar.outputPath, OutputExt(sidecar.audioOnly))
        IN sidecar.files \subseteq {base \o ".nfo", base \o "-poster.jpg"}

\* ---------------------------------------------------------------------------
\* Properties of GetStats
\* ---------------------------------------------------------------------------

\* C40: the stats GetStats returns have Total = Pending + Active + Completed
\* + Failed + Cancelled, Active is the number of items in fetching_info,
\* downloading_video, downloading_audio, muxing or organizing, and the call
\* changes no item.
C40_StatsAddUp ==
    /\ [](stats.called =>
            /\ stats.total = stats.pending + stats.active + stats.completed
                                + stats.failed + stats.cancelled
            /\ stats.total = Len(items)
            /\ stats.active = Cardinality({i \in DOMAIN items : items[i].status \in InFlight}))
    /\ [][GetStatsCall => items' = items]_vars

\* stats of a queue of three with two items active, one of them organizing
C40_Witness ==
    /\ stats.called
    /\ stats.total = 3
    /\ stats.active = 2
    /\ stats.pending = 1
    /\ \E i \in DOMAIN items : items[i].status = StatusOrganizing

====
